---- MODULE Spec2Model ----
(***************************************************************************)
(* The Mesos slave (src/src/slave/slave.cpp) as a state machine: one       *)
(* action per message handler of Slave, over the framework / executor /    *)
(* pending-status tables the handlers read and write.                      *)
(***************************************************************************)
EXTENDS Integers, Sequences, FiniteSets, TLC

(* ------------------------------ bounds -------------------------------- *)

\* Horizon of the modelled clock (elapsedTime() is unbounded in the code).
MaxTime == 15

\* Cap on the number of status updates handled (valid_status_updates +
\* invalid_status_updates), which the code never bounds.
MaxUpdates == 2

\* Cap on the number of framework messages handled (valid_framework_messages
\* + invalid_framework_messages), which the code never bounds.
MaxMessages == 2

\* Number of suffixes 0 .. MaxSuffix - 1 under an executor's directory that
\* the file system may hold when the slave starts.
MaxSuffix == 3

\* Cap on the ids the master mints (frameworks, slaves and offers together),
\* which its counter never bounds.
MaxMinted == 4

\* Cap on the messages sent to the processes of the runtime, which no code
\* bounds.
MaxSent == 3

\* Cap on the calls of TestWatcher::process, which no code bounds.
MaxEvents == 3

(* ------------------------- program constants -------------------------- *)

STATUS_UPDATE_RETRY_INTERVAL == 10

\* <climits>: the limit of the search of Slave::getUniqueWorkDirectory.
INT_MAX == 2147483647

(* --------------------------- input domains ---------------------------- *)

\* Framework ids that arrive in messages; the master dispatches tasks of
\* RunFrameworkIds to this slave, the others stay unknown to it.
FrameworkIds == {"f1", "f2"}
RunFrameworkIds == {"f1"}
ExecutorIds == {"e1"}
\* Executor ids of the behaviours with several executors per framework.
AllExecutorIds == {"e1", "e2"}
TaskIds == {"t1", "t2"}
MasterPids == {"m1", "m2"}
SlaveIds == {"s1"}
ExecutorPids == {"x1"}
\* Senders of register_executor in the behaviours with several executors.
AllExecutorPids == {"x1", "x2"}
FrameworkPids == {"p1"}
\* Addresses that update_framework hands over: the old one and a new one.
AllFrameworkPids == {"p1", "p2"}
\* Ids that masters hand out in their registration replies.
AllSlaveIds == {"s1", "s2"}
\* What isolationModule->launchExecutor returns when the isolation module
\* watches the executor itself: the slave asks for no reaping.
UnreapedPids == {0}
\* Process ids of the executors forked for the slave.
ChildPids == {101, 102}

\* Addresses of the slave actors that register with the master.
SlaveAddrs == {"a1"}
\* Largest amount of one resource on a slave.
MaxAmount == 2

\* The processes spawned on the runtime, and its worker threads.
Processes == {"p1", "p2"}
Workers == {"w1", "w2"}
\* A worker thread that executes no process.
Idle == "idle"
\* Names of the messages the processes send one another.
MessageNames == {"M"}

\* The events the ZooKeeper thread reports: session events with their state
\* and child events with their path.
Events ==
  {[type |-> "ZOO_SESSION_EVENT", state |-> "CONNECTED", path |-> ""],
   [type |-> "ZOO_SESSION_EVENT", state |-> "EXPIRED", path |-> ""],
   [type |-> "ZOO_CHILD_EVENT", state |-> "CONNECTED", path |-> "/a"]}
\* What the test thread waits for: any event (awaitEvent()), a session state
\* (awaitSessionEvent) or a created path (awaitCreated).
Matchers ==
  {[kind |-> "any", arg |-> ""],
   [kind |-> "session", arg |-> "CONNECTED"],
   [kind |-> "created", arg |-> "/a"]}
\* No thread holds the mutex.
Unlocked == "unlocked"

\* Amounts advanced by the clock between two handlers.
ClockSteps == {5}

TerminalStates == {"TASK_FINISHED", "TASK_FAILED", "TASK_KILLED", "TASK_LOST"}
TaskStates == {"TASK_STARTING", "TASK_RUNNING"} \cup TerminalStates
\* States an executor reports.
ReportedStates == {"TASK_RUNNING"} \cup TerminalStates

\* UPID(): the unset process id.
NoPid == "none"
\* SlaveID before registration.
NoSlaveId == ""
\* NULL, as returned by the lookups.
NoExecutor == "NULL"

\* Resources requested by each task description (one scalar).
TaskResources(task_id) == IF task_id = "t1" THEN 1 ELSE 2

(* ------------------------------ state --------------------------------- *)

VARIABLES
  frameworks,   \* Slave::frameworks: FrameworkID -> Framework
  master,       \* Slave::master
  slaveId,      \* Slave::slaveId
  statistics,   \* Slave::statistics
  now,          \* elapsedTime()
  running,      \* the serve loop of Slave::operator() has not returned
  out,          \* what the last handler sent or asked of the isolation module
                \* since the clock last advanced
  launched,     \* task ids the master has dispatched to this slave
  terminalSent, \* (framework, task) pairs with a terminal status sent to a master
  connected,    \* the last word of the master detector was NEW_MASTER_DETECTED
  conf,         \* Slave::conf: the options given, name -> value
  directories,  \* the file system under the work directories: path -> what
                \* opendir() meets there ("DIR" or "ENOTDIR"); no entry: ENOENT
  children,     \* the executor processes forked for the slave: pid -> status
                \* ("running", "zombie" once exited, "reaped" once waited
                \* for) and the executor it was launched as
  reapRequests, \* dispatches of ExecutorReaper::reap not yet served
  pids,         \* ExecutorReaper::pids
  reaperAt,     \* where ExecutorReaper::operator() stands: in "serve", or
                \* in the "TIMEOUT" branch before waitpid
  exitedDispatches, \* the dispatches of Slave::executorExited made so far
  masterFrameworks, \* the master's Framework collection: id -> framework
  masterSlaves,     \* the master's Slave collection: id -> slave
  masterOffers,     \* the master's outstanding offers: id -> offer
  masterTasks,      \* the master's Task collection: (framework, task) -> task
  minted,           \* the monotonic counter of the ids the master mints
  masterSent,       \* what the master's last handler sent
  procState,        \* ProcessBase::state of each spawned process
  runq,             \* the ready queue the worker threads draw from
  threads,          \* worker thread -> the process it executes, or Idle
  messages,         \* ProcessBase::messages of each spawned process
  current,          \* ProcessBase::current of each spawned process
  sent,             \* the number of messages sent so far
  events,           \* TestWatcher::events
  mutex,            \* TestWatcher::mutex: the thread that holds it
  zkAt,             \* where the ZooKeeper thread stands in process()
  zkEvent,          \* the event that process() was called with
  testAt,           \* where the test thread stands in awaitEvent()
  want,             \* the matches that awaitEvent was called with
  recorded,         \* every event pushed by process() so far, in order
  popped,           \* every event popped by awaitEvent() so far, in order
  callStart         \* how many events were popped when the call began

\* The state of the master.
masterVars == <<masterFrameworks, masterSlaves, masterOffers, masterTasks,
                minted, masterSent>>

\* The state of the actor runtime.
runtimeVars == <<procState, runq, threads, messages, current, sent>>

\* The state of the ZooKeeper test watcher and of its two threads.
watcherVars == <<events, mutex, zkAt, zkEvent, testAt, want, recorded, popped,
                 callStart>>

vars == <<frameworks, master, slaveId, statistics, now, running, out, launched,
          terminalSent, connected, conf, directories, children, reapRequests,
          pids, reaperAt, exitedDispatches, masterVars, runtimeVars,
          watcherVars>>

\* The members of Slave.
slaveVars == <<frameworks, master, slaveId, statistics, now, running, out,
               launched, terminalSent, connected, conf, directories>>

\* What no handler of the slave writes.
surroundings ==
  <<conf, directories, pids, reaperAt, exitedDispatches, masterVars,
    runtimeVars, watcherVars>>

(* ----------------------------- helpers -------------------------------- *)

EmptyMap == [x \in {} |-> 0]

Put(f, k, v) == [x \in (DOMAIN f) \cup {k} |-> IF x = k THEN v ELSE f[x]]

\* Mutant of Del: the entry is kept.
DelNothing(f, k) == f
Del(f, k) == [x \in (DOMAIN f) \ {k} |-> f[x]]

Range(s) == {s[i] : i \in 1..Len(s)}

\* Mutant of Without: nothing is erased.
KeptQueued(s, x) == s

RECURSIVE Without(_, _)
\* The list s with the first occurrence of x erased.
Without(s, x) ==
  IF s = <<>> THEN <<>>
  ELSE IF Head(s) = x THEN Tail(s)
  ELSE <<Head(s)>> \o Without(Tail(s), x)

\* A message sent by send(), a dispatch, or a call on the isolation module.
Message(to, type) ==
  [to |-> to, type |-> type, framework_id |-> "-", executor_id |-> "-",
   task_id |-> "-", state |-> "-", resources |-> 0, tasks |-> {}, pid |-> "-",
   slave_id |-> "-", directory |-> "-", child_pid |-> 0]

\* MSG<S2M_STATUS_UPDATE>
StatusUpdateMsg(to, fw, task, state) ==
  [Message(to, "S2M_STATUS_UPDATE") EXCEPT
     !.framework_id = fw, !.task_id = task, !.state = state]

\* isolationModule->resourcesChanged(...)
ResourcesChanged(fw, ex, res) ==
  [Message("isolation", "resourcesChanged") EXCEPT
     !.framework_id = fw, !.executor_id = ex, !.resources = res]

\* MSG<S2E_RUN_TASK>
RunTaskMsg(to, fw, fwPid, task) ==
  [Message(to, "S2E_RUN_TASK") EXCEPT
     !.framework_id = fw, !.task_id = task, !.pid = fwPid]

\* Status updates to a master among the messages of a handler.
StatusUpdatesIn(msgs) ==
  {i \in 1..Len(msgs) : msgs[i].type = "S2M_STATUS_UPDATE"}

TerminalPairsIn(msgs) ==
  {<<msgs[i].framework_id, msgs[i].task_id>> :
     i \in {j \in StatusUpdatesIn(msgs) : msgs[j].state \in TerminalStates}}

(* ------------------- Executor and Framework structs ------------------- *)

NewExecutor ==
  [pid |-> NoPid, tasks |-> EmptyMap, queuedTasks |-> <<>>, resources |-> 0]

\* Executor::addTask
AddTask(executor, task_id) ==
  [executor EXCEPT !.tasks = Put(@, task_id, "TASK_STARTING"),
                   !.resources = @ + TaskResources(task_id)]

\* Executor::removeTask
RemoveTask(executor, task_id) ==
  [executor EXCEPT
     !.queuedTasks = Without(@, task_id),
     !.tasks = Del(@, task_id),
     !.resources = IF task_id \in DOMAIN executor.tasks
                   THEN @ - TaskResources(task_id) ELSE @]

\* Executor::updateTaskState
UpdateTaskState(executor, task_id, state) ==
  IF task_id \in DOMAIN executor.tasks
  THEN [executor EXCEPT !.tasks[task_id] = state]
  ELSE executor

NewFramework(pid) ==
  [pid |-> pid, executors |-> EmptyMap, statuses |-> {}]

\* Framework::destroyExecutor
DestroyExecutor(framework, executorId) ==
  [framework EXCEPT !.executors = Del(@, executorId)]

\* Framework::getExecutor(const ExecutorID&)
GetExecutor(framework, executorId) ==
  IF executorId \in DOMAIN framework.executors THEN executorId ELSE NoExecutor

\* Mutant of GetExecutorOfTask: any executor of the framework is taken for
\* the holder of the task.
GetExecutorOfAnyTask(framework, task_id) ==
  IF DOMAIN framework.executors = {} THEN NoExecutor
  ELSE CHOOSE e \in DOMAIN framework.executors : TRUE

\* Framework::getExecutor(const TaskID&)
GetExecutorOfTask(framework, task_id) ==
  LET holders == {e \in DOMAIN framework.executors :
                    \/ task_id \in DOMAIN framework.executors[e].tasks
                    \/ task_id \in Range(framework.executors[e].queuedTasks)}
  IN IF holders = {} THEN NoExecutor ELSE CHOOSE e \in holders : TRUE

\* Mutant of Deadline: the retry interval is not added.
DeadlineNow == now

\* double deadline = elapsedTime() + STATUS_UPDATE_RETRY_TIMEOUT
Deadline == now + STATUS_UPDATE_RETRY_INTERVAL

\* Mutant of IsExpired: a deadline equal to the clock is not yet expired.
IsExpiredStrictly(deadline) == deadline < now
\* Mutant of IsExpired: every deadline counts as passed.
IsExpiredAlways(deadline) == TRUE

\* The test of Slave::timeout on a deadline.
IsExpired(deadline) == deadline <= now

\* Mutant of RemovesTask: the switch has no case for TASK_KILLED.
RemovesTaskButKilled(state) ==
  state \in {"TASK_FINISHED", "TASK_FAILED", "TASK_LOST"}

\* The cases of the switch of Slave::statusUpdate, which remove the task.
RemovesTask(state) ==
  state \in {"TASK_FINISHED", "TASK_FAILED", "TASK_KILLED", "TASK_LOST"}

\* Mutant of ConsideredLost: the task is considered lost whatever the executor.
ConsideredLostAlways(executor) == TRUE

\* The test of Slave::killTask that considers the task lost, for an executor
\* the lookup found.
ConsideredLost(executor) == executor.pid = NoPid

\* Mutant of QueueTask: a queued task already counts in the resources.
QueueTaskCounted(executor, task_id) ==
  [executor EXCEPT !.queuedTasks = Append(@, task_id),
                   !.resources = @ + TaskResources(task_id)]

\* executor->queuedTasks.push_back(task)
QueueTask(executor, task_id) ==
  [executor EXCEPT !.queuedTasks = Append(@, task_id)]

\* The loop of Slave::statusUpdateAck: it stops at the first deadline that
\* holds the task.
EraseAcknowledged(statuses, taskId) ==
  LET held == {s \in statuses : s.task_id = taskId}
      first == {s \in held : \A r \in held : s.deadline <= r.deadline}
  IN statuses \ first

\* Mutant of RecordStatus: the status is not kept for resending.
RecordStatusForgotten(statuses, deadline, task_id, state) == statuses

\* framework->statuses[deadline][task_id] = status
RecordStatus(statuses, deadline, task_id, state) ==
  {s \in statuses : ~(s.deadline = deadline /\ s.task_id = task_id)}
    \cup {[deadline |-> deadline, task_id |-> task_id, state |-> state]}

\* Slave::getFramework
GetFramework(frameworkId) == frameworkId \in DOMAIN frameworks

(* ------------------------------- Init --------------------------------- *)

\* The master before any registration.
InitMaster ==
  /\ masterFrameworks = EmptyMap
  /\ masterSlaves = EmptyMap
  /\ masterOffers = EmptyMap
  /\ masterTasks = EmptyMap
  /\ minted = 0
  /\ masterSent = <<>>

\* A message of the runtime: its sender, its name, its rank among the
\* messages sent, and whether it was injected.
Envelope(from, name, seq, inject) ==
  [from |-> from, name |-> name, seq |-> seq, injected |-> inject]

\* Every spawned process blocked in serve() on an empty queue, every worker
\* thread idle.
InitRuntime ==
  /\ procState = [p \in Processes |-> "SERVING"]
  /\ runq = <<>>
  /\ threads = [w \in Workers |-> Idle]
  /\ messages = [p \in Processes |-> <<>>]
  /\ current = [p \in Processes |-> Envelope(NoPid, "", 0, FALSE)]
  /\ sent = 0

\* The watcher after its constructor: no event, the mutex free, the ZooKeeper
\* thread outside process() and the test thread outside awaitEvent().
InitWatcher ==
  /\ events = <<>>
  /\ mutex = Unlocked
  /\ zkAt = "idle"
  /\ zkEvent = CHOOSE e \in Events : TRUE
  /\ testAt = "idle"
  /\ want = [kind |-> "any", arg |-> ""]
  /\ recorded = <<>>
  /\ popped = <<>>
  /\ callStart = 0

Init ==
  /\ frameworks = EmptyMap
  /\ master = NoPid
  /\ slaveId = NoSlaveId
  /\ statistics = [launched_tasks |-> 0, finished_tasks |-> 0,
                   killed_tasks |-> 0, failed_tasks |-> 0, lost_tasks |-> 0,
                   valid_status_updates |-> 0, invalid_status_updates |-> 0,
                   valid_framework_messages |-> 0,
                   invalid_framework_messages |-> 0]
  /\ now = 0
  /\ running = TRUE
  /\ out = <<>>
  /\ launched = {}
  /\ terminalSent = {}
  /\ connected = FALSE
  /\ conf = EmptyMap
  /\ directories = EmptyMap
  /\ children = EmptyMap
  /\ reapRequests = <<>>
  /\ pids = EmptyMap
  /\ reaperAt = "serve"
  /\ exitedDispatches = <<>>
  /\ InitMaster
  /\ InitRuntime
  /\ InitWatcher

\* The entries of every framework->statuses, tagged with their framework.
Pending ==
  UNION {{[framework_id |-> f, deadline |-> s.deadline, task_id |-> s.task_id,
           state |-> s.state] : s \in frameworks[f].statuses} :
         f \in DOMAIN frameworks}

\* A handler that stamps a deadline runs while the deadline fits the horizon.
\* Each handler reads a later elapsedTime() than the ones before it, so the
\* deadline it stamps is later than every deadline stamped before.
CanStamp ==
  /\ now + STATUS_UPDATE_RETRY_INTERVAL <= MaxTime
  /\ \A f \in DOMAIN frameworks : \A s \in frameworks[f].statuses :
       s.deadline < now + STATUS_UPDATE_RETRY_INTERVAL

\* Status updates handled so far.
UpdatesHandled ==
  statistics.valid_status_updates + statistics.invalid_status_updates

\* The dispatches of ExecutorReaper::reap among msgs, in order.
ReapsIn(msgs) == SelectSeq(msgs, LAMBDA m : m.type = "reap")

RECURSIVE Forked(_, _)
\* The process table after the processes monitored by reaps were forked.
Forked(table, reaps) ==
  IF reaps = <<>> THEN table
  ELSE Forked(Put(table, Head(reaps).child_pid,
                  [status |-> "running",
                   framework_id |-> Head(reaps).framework_id,
                   executor_id |-> Head(reaps).executor_id]),
              Tail(reaps))

\* Bookkeeping common to every handler: what it sent.
Served(msgName, msgs) ==
  /\ out' = msgs
  /\ reapRequests' = reapRequests \o ReapsIn(msgs)
  /\ children' = Forked(children, ReapsIn(msgs))
  /\ terminalSent' = terminalSent \cup TerminalPairsIn(msgs)
  /\ connected' = CASE msgName = "NEW_MASTER_DETECTED" -> TRUE
                    [] msgName = "NO_MASTER_DETECTED" -> FALSE
                    [] OTHER -> connected

\* The process dies (segmentation fault, LOG(FATAL)): its tables are gone.
Dies(msgName, msgs) ==
  /\ Served(msgName, msgs)
  /\ running' = FALSE
  /\ frameworks' = EmptyMap

(* ------------------------------ actions ------------------------------- *)

\* Time passes between two handlers.  The clock is read only to stamp and to
\* compare deadlines, so it is advanced only while a status update is pending.
Tick(d) ==
  /\ running
  /\ now + d <= MaxTime
  /\ \E f \in DOMAIN frameworks : frameworks[f].statuses # {}
  /\ now' = now + d
  /\ out' = <<>>
  /\ UNCHANGED <<surroundings, frameworks, master, slaveId, statistics,
                 running, launched, terminalSent, connected, children,
                 reapRequests>>

\* Mutant of Unregistered: the slave always takes itself for registered.
UnregisteredNever == FALSE

\* The test slaveId == "" of Slave::newMasterDetected.
Unregistered == slaveId = NoSlaveId

\* Slave::newMasterDetected
NewMasterDetected(pid) ==
  /\ running
  /\ master' = pid
  /\ LET tasks == UNION {UNION {DOMAIN frameworks[f].executors[e].tasks :
                                   e \in DOMAIN frameworks[f].executors} :
                           f \in DOMAIN frameworks}
     IN Served("NEW_MASTER_DETECTED",
               IF Unregistered
               THEN <<Message(pid, "S2M_REGISTER_SLAVE")>>
               ELSE <<[Message(pid, "S2M_REREGISTER_SLAVE") EXCEPT
                         !.slave_id = slaveId, !.tasks = tasks]>>)
  /\ UNCHANGED <<surroundings, frameworks, slaveId, statistics, now, running, launched>>

\* Slave::noMasterDetected
NoMasterDetected ==
  /\ running
  /\ Served("NO_MASTER_DETECTED", <<>>)
  /\ UNCHANGED <<surroundings, frameworks, master, slaveId, statistics, now, running,
                 launched>>

\* Slave::registerReply
RegisterReply(id) ==
  /\ running
  /\ slaveId' = id
  /\ Served("M2S_REGISTER_REPLY", <<>>)
  /\ UNCHANGED <<surroundings, frameworks, master, statistics, now, running, launched>>

\* Slave::reregisterReply
ReregisterReply(id) ==
  /\ running
  /\ UNCHANGED <<surroundings, master, slaveId, statistics, now, launched>>
  /\ IF slaveId # id
     THEN Dies("M2S_REREGISTER_REPLY", <<>>)
     ELSE /\ Served("M2S_REREGISTER_REPLY", <<>>)
          /\ UNCHANGED <<frameworks, running>>

\* The work directory named by the options: conf "work_dir", else "home",
\* else ".", followed by "/work".
WorkDir(options) ==
  (IF "work_dir" \in DOMAIN options THEN options["work_dir"]
   ELSE IF "home" \in DOMAIN options THEN options["home"]
   ELSE ".") \o "/work"

\* os.str() before the loop: the directory of the executor, with its "/".
ExecutorDirectory(options, id, frameworkId, executorId) ==
  WorkDir(options) \o "/slave-" \o id
    \o "/fw-" \o frameworkId \o "-" \o executorId \o "/"

\* opendir(path): "DIR" for a stream, else the errno left with NULL.
Opendir(path) ==
  IF path \in DOMAIN directories THEN directories[path] ELSE "ENOENT"

\* Mutant of NotFound: errno is not looked at.
NotFoundOrUnreadable(path) == Opendir(path) # "DIR"

\* opendir(os.str().c_str()) == NULL && errno == ENOENT
NotFound(path) == Opendir(path) = "ENOENT"

RECURSIVE Probe(_, _)
\* The loop of Slave::getUniqueWorkDirectory from suffix i on.
Probe(dir, i) ==
  IF i >= INT_MAX THEN dir
  ELSE IF NotFound(dir \o ToString(i)) THEN dir \o ToString(i)
  ELSE Probe(dir, i + 1)

\* Slave::getUniqueWorkDirectory
GetUniqueWorkDirectory(frameworkId, executorId) ==
  Probe(ExecutorDirectory(conf, slaveId, frameworkId, executorId), 0)

\* Mutant of LaunchExecutor: the isolation module is not asked to launch.
LaunchExecutorForgotten(frameworkId, executorId, launchedPid) == <<>>

\* The end of the last branch of Slave::runTask: the call of
\* isolationModule->launchExecutor and, for a process id other than 0, the
\* dispatch of ExecutorReaper::reap.
LaunchExecutor(frameworkId, executorId, launchedPid) ==
  <<[Message("isolation", "launchExecutor") EXCEPT
       !.framework_id = frameworkId, !.executor_id = executorId,
       !.directory = GetUniqueWorkDirectory(frameworkId, executorId)]>>
  \o (IF launchedPid # 0
      THEN <<[Message("reaper", "reap") EXCEPT
                !.framework_id = frameworkId, !.executor_id = executorId,
                !.child_pid = launchedPid]>>
      ELSE <<>>)

\* Slave::runTask; launchedPid is what isolationModule->launchExecutor returns
\* (0 or a process id).
RunTask(frameworkId, pid, task_id, executorId, launchedPid) ==
  /\ running
  /\ <<frameworkId, task_id>> \notin launched
  /\ launched' = launched \cup {<<frameworkId, task_id>>}
  /\ LET framework == IF GetFramework(frameworkId)
                      THEN frameworks[frameworkId]
                      ELSE NewFramework(pid)
         executor == GetExecutor(framework, executorId)
     IN IF executor # NoExecutor
        THEN IF framework.executors[executor].pid = NoPid
             THEN /\ frameworks' = Put(frameworks, frameworkId,
                       [framework EXCEPT !.executors[executor] =
                                           QueueTask(@, task_id)])
                  /\ Served("M2S_RUN_TASK", <<>>)
             ELSE LET added == AddTask(framework.executors[executor], task_id)
                  IN /\ frameworks' = Put(frameworks, frameworkId,
                          [framework EXCEPT !.executors[executor] = added])
                     /\ Served("M2S_RUN_TASK",
                          <<RunTaskMsg(added.pid, frameworkId, framework.pid,
                                       task_id),
                            ResourcesChanged(frameworkId, executor,
                                             added.resources)>>)
        ELSE /\ frameworks' = Put(frameworks, frameworkId,
                  [framework EXCEPT !.executors =
                     Put(@, executorId, QueueTask(NewExecutor, task_id))])
             /\ Served("M2S_RUN_TASK",
                  LaunchExecutor(frameworkId, executorId, launchedPid))
  /\ UNCHANGED <<surroundings, master, slaveId, statistics, now, running>>

\* Slave::killTask.  A NULL framework or executor is dereferenced by the
\* handler: the process dies, with the message it sent before delivered or not.
KillTask(frameworkId, taskId, delivered) ==
  /\ running
  /\ UNCHANGED <<surroundings, master, slaveId, statistics, now, launched>>
  /\ LET lost == StatusUpdateMsg(master, frameworkId, taskId, "TASK_LOST")
     IN IF GetFramework(frameworkId)
        THEN LET framework == frameworks[frameworkId]
                 executor == GetExecutorOfTask(framework, taskId)
             IN IF executor = NoExecutor
                THEN Dies("M2S_KILL_TASK", <<>>)
                ELSE IF ConsideredLost(framework.executors[executor])
                THEN LET removed ==
                           RemoveTask(framework.executors[executor], taskId)
                         deadline == Deadline
                     IN /\ CanStamp
                        /\ UNCHANGED running
                        /\ Served("M2S_KILL_TASK",
                             <<ResourcesChanged(frameworkId, executor,
                                                removed.resources),
                               lost>>)
                        /\ frameworks' = [frameworks EXCEPT ![frameworkId] =
                             [framework EXCEPT
                                !.executors[executor] = removed,
                                !.statuses = RecordStatus(@, deadline, taskId,
                                                          "TASK_LOST")]]
                ELSE /\ Served("M2S_KILL_TASK",
                          <<[Message(framework.executors[executor].pid,
                                     "S2E_KILL_TASK") EXCEPT
                               !.framework_id = frameworkId,
                               !.task_id = taskId]>>)
                     /\ UNCHANGED <<frameworks, running>>
        ELSE Dies("M2S_KILL_TASK", IF delivered THEN <<lost>> ELSE <<>>)

\* Slave::killFramework(Framework*, bool) with killExecutors = true: what it
\* sends for the executors of the framework, in some order of the table.
RECURSIVE KillExecutorMsgs(_, _, _)
KillExecutorMsgs(frameworkId, framework, executorIds) ==
  IF executorIds = {} THEN <<>>
  ELSE LET e == CHOOSE e \in executorIds : TRUE
       IN <<[Message(framework.executors[e].pid, "S2E_KILL_EXECUTOR") EXCEPT
               !.framework_id = frameworkId, !.executor_id = e],
            [Message("isolation", "killExecutor") EXCEPT
               !.framework_id = frameworkId, !.executor_id = e]>>
          \o KillExecutorMsgs(frameworkId, framework, executorIds \ {e})

\* Slave::killFramework(const FrameworkID&)
KillFramework(frameworkId) ==
  /\ running
  /\ IF GetFramework(frameworkId)
     THEN /\ frameworks' = Del(frameworks, frameworkId)
          /\ Served("M2S_KILL_FRAMEWORK",
                    KillExecutorMsgs(frameworkId, frameworks[frameworkId],
                        DOMAIN frameworks[frameworkId].executors))
     ELSE /\ frameworks' = frameworks
          /\ Served("M2S_KILL_FRAMEWORK", <<>>)
  /\ UNCHANGED <<surroundings, master, slaveId, statistics, now, running, launched>>

\* Mutant of UpdatePid: the new address is dropped.
UpdatePidIgnored(framework, pid) == framework

\* framework->pid = pid of Slave::updateFramework.
UpdatePid(framework, pid) == [framework EXCEPT !.pid = pid]

\* Slave::updateFramework
UpdateFramework(frameworkId, pid) ==
  /\ running
  /\ Served("M2S_UPDATE_FRAMEWORK", <<>>)
  /\ UNCHANGED <<surroundings, master, slaveId, statistics, now, running,
                 launched>>
  /\ IF GetFramework(frameworkId)
     THEN frameworks' = [frameworks EXCEPT
                           ![frameworkId] = UpdatePid(@, pid)]
     ELSE frameworks' = frameworks

\* Slave::statusUpdateAck: the loop over the deadlines stops at the first one
\* that holds the task.
StatusUpdateAck(frameworkId, id, taskId) ==
  /\ running
  /\ Served("M2S_STATUS_UPDATE_ACK", <<>>)
  /\ UNCHANGED <<surroundings, master, slaveId, statistics, now, running, launched>>
  /\ IF GetFramework(frameworkId)
     THEN frameworks' = [frameworks EXCEPT
                           ![frameworkId].statuses =
                              EraseAcknowledged(@, taskId)]
     ELSE frameworks' = frameworks

\* Mutant of SendQueuedTasks: the queue is not flushed.
SendQueuedTasksKept(frameworkId, framework, executor, msgs) ==
  [executor |-> executor, msgs |-> msgs]

\* Slave::sendQueuedTasks: the executor after the flush, and the messages.
RECURSIVE SendQueuedTasks(_, _, _, _)
SendQueuedTasks(frameworkId, framework, executor, msgs) ==
  IF executor.queuedTasks = <<>>
  THEN [executor |-> executor, msgs |-> msgs]
  ELSE LET task_id == Head(executor.queuedTasks)
       IN SendQueuedTasks(frameworkId, framework,
            [AddTask(executor, task_id) EXCEPT !.queuedTasks = Tail(@)],
            Append(msgs, RunTaskMsg(executor.pid, frameworkId, framework.pid,
                                    task_id)))

\* Mutant of AlreadyRunning: a second registration is taken for a first one.
AlreadyRunningNever(executor) == FALSE

\* The test executor->pid != UPID() of Slave::registerExecutor.
AlreadyRunning(executor) == executor.pid # NoPid

\* Slave::registerExecutor; from is from(), the sender of the message.
RegisterExecutor(frameworkId, executorId, from) ==
  /\ running
  /\ LET kill == <<Message(from, "S2E_KILL_EXECUTOR")>>
     IN IF GetFramework(frameworkId)
        THEN LET framework == frameworks[frameworkId]
                 executor == GetExecutor(framework, executorId)
             IN IF executor = NoExecutor
                THEN /\ Served("E2S_REGISTER_EXECUTOR", kill)
                     /\ frameworks' = frameworks
                ELSE IF AlreadyRunning(framework.executors[executor])
                THEN /\ Served("E2S_REGISTER_EXECUTOR", kill)
                     /\ frameworks' = frameworks
                ELSE LET saved == [framework.executors[executor] EXCEPT
                                     !.pid = from]
                         flushed == SendQueuedTasks(frameworkId, framework,
                                                    saved, <<>>)
                     IN /\ frameworks' = [frameworks EXCEPT
                             ![frameworkId].executors[executor] =
                                flushed.executor]
                        /\ Served("E2S_REGISTER_EXECUTOR",
                             <<ResourcesChanged(frameworkId, executor,
                                                saved.resources),
                               [Message(from, "S2E_REGISTER_REPLY") EXCEPT
                                  !.framework_id = frameworkId,
                                  !.executor_id = executor]>>
                             \o flushed.msgs)
        ELSE /\ Served("E2S_REGISTER_EXECUTOR", kill)
             /\ frameworks' = frameworks
  /\ UNCHANGED <<surroundings, master, slaveId, statistics, now, running, launched>>

\* Framework messages handled so far.
MessagesHandled ==
  statistics.valid_framework_messages + statistics.invalid_framework_messages

\* Mutant of ExecutorIsUp: an executor counts as running before it registers.
ExecutorIsUpAlways(executor) == TRUE

\* The test of Slave::schedulerMessage on executor->pid.
ExecutorIsUp(executor) == executor.pid # NoPid

\* Slave::schedulerMessage
SchedulerMessage(id, frameworkId, executorId) ==
  /\ running
  /\ MessagesHandled < MaxMessages
  /\ UNCHANGED <<surroundings, frameworks, master, slaveId, now, running, launched>>
  /\ LET invalid ==
           /\ Served("M2S_FRAMEWORK_MESSAGE", <<>>)
           /\ statistics' = [statistics EXCEPT
                               !.invalid_framework_messages = @ + 1]
     IN IF GetFramework(frameworkId)
        THEN LET framework == frameworks[frameworkId]
                 executor == GetExecutor(framework, executorId)
             IN IF executor = NoExecutor
                THEN invalid
                ELSE IF ~ExecutorIsUp(framework.executors[executor])
                THEN invalid
                ELSE /\ Served("M2S_FRAMEWORK_MESSAGE",
                          <<[Message(framework.executors[executor].pid,
                                     "S2E_FRAMEWORK_MESSAGE") EXCEPT
                               !.slave_id = id,
                               !.framework_id = frameworkId,
                               !.executor_id = executorId]>>)
                     /\ statistics' = [statistics EXCEPT
                                         !.valid_framework_messages = @ + 1]
        ELSE invalid

\* Slave::executorMessage
ExecutorMessage(id, frameworkId, executorId) ==
  /\ running
  /\ MessagesHandled < MaxMessages
  /\ UNCHANGED <<surroundings, frameworks, master, slaveId, now, running, launched>>
  /\ IF GetFramework(frameworkId)
     THEN /\ Served("E2S_FRAMEWORK_MESSAGE",
               <<[Message(frameworks[frameworkId].pid,
                          "M2F_FRAMEWORK_MESSAGE") EXCEPT
                    !.slave_id = id,
                    !.framework_id = frameworkId,
                    !.executor_id = executorId]>>)
          /\ statistics' = [statistics EXCEPT
                              !.valid_framework_messages = @ + 1]
     ELSE /\ Served("E2S_FRAMEWORK_MESSAGE", <<>>)
          /\ statistics' = [statistics EXCEPT
                              !.invalid_framework_messages = @ + 1]

\* The statistics counter that the switch of Slave::statusUpdate increments.
CounterOf(state) ==
  CASE state = "TASK_FINISHED" -> "finished_tasks"
    [] state = "TASK_FAILED" -> "failed_tasks"
    [] state = "TASK_KILLED" -> "killed_tasks"
    [] state = "TASK_LOST" -> "lost_tasks"

\* Slave::statusUpdate
StatusUpdate(frameworkId, task_id, state) ==
  /\ running
  /\ UpdatesHandled < MaxUpdates
  /\ UNCHANGED <<surroundings, master, slaveId, now, running, launched>>
  /\ LET invalid ==
           /\ Served("E2S_STATUS_UPDATE", <<>>)
           /\ statistics' = [statistics EXCEPT !.invalid_status_updates = @ + 1]
           /\ frameworks' = frameworks
     IN IF GetFramework(frameworkId)
        THEN LET framework == frameworks[frameworkId]
                 executor == GetExecutorOfTask(framework, task_id)
             IN IF executor # NoExecutor
                THEN LET updated == UpdateTaskState(
                           framework.executors[executor], task_id, state)
                         removed == IF RemovesTask(state)
                                    THEN RemoveTask(updated, task_id)
                                    ELSE updated
                         deadline == Deadline
                     IN /\ CanStamp
                        /\ Served("E2S_STATUS_UPDATE",
                             (IF RemovesTask(state)
                              THEN <<ResourcesChanged(frameworkId, executor,
                                                      removed.resources)>>
                              ELSE <<>>)
                             \o <<StatusUpdateMsg(master, frameworkId, task_id,
                                                  state)>>)
                        /\ statistics' =
                             IF RemovesTask(state)
                             THEN [statistics EXCEPT
                                     ![CounterOf(state)] = @ + 1,
                                     !.valid_status_updates = @ + 1]
                             ELSE [statistics EXCEPT
                                     !.valid_status_updates = @ + 1]
                        /\ frameworks' = [frameworks EXCEPT ![frameworkId] =
                             [framework EXCEPT
                                !.executors[executor] = removed,
                                !.statuses = RecordStatus(@, deadline, task_id,
                                                          state)]]
                ELSE invalid
        ELSE invalid

\* The orders in which the nested loops of Slave::timeout can visit a set of
\* entries: framework by framework, and by increasing deadline within one.
VisitOrders(entries) ==
  LET n == Cardinality(entries)
  IN {seq \in [1..n -> entries] :
        /\ \A i, j \in 1..n : i # j => seq[i] # seq[j]
        /\ \A i, j \in 1..n :
             (i < j /\ seq[i].framework_id = seq[j].framework_id)
               => /\ seq[i].deadline <= seq[j].deadline
                  /\ \A k \in i..j : seq[k].framework_id = seq[i].framework_id}

\* Slave::timeout
Timeout ==
  /\ running
  /\ UNCHANGED <<surroundings, frameworks, master, slaveId, statistics, now, running,
                 launched>>
  /\ LET expired == {s \in Pending : IsExpired(s.deadline)}
     IN \E seq \in VisitOrders(expired) :
          Served("TIMEOUT",
                 [i \in 1..Cardinality(expired) |->
                    StatusUpdateMsg(master, seq[i].framework_id,
                                    seq[i].task_id, seq[i].state)])

\* Mutant of NoExecutorLeft: a framework is kept without any executor.
NoExecutorLeftNever(executors) == FALSE

\* The test framework->executors.size() == 0 of Slave::executorExited.
NoExecutorLeft(executors) == executors = EmptyMap

\* Slave::executorExited
ExecutorExited(frameworkId, executorId) ==
  /\ running
  /\ IF /\ GetFramework(frameworkId)
        /\ GetExecutor(frameworks[frameworkId], executorId) # NoExecutor
     THEN LET destroyed == DestroyExecutor(frameworks[frameworkId], executorId)
          IN /\ frameworks' =
                  IF NoExecutorLeft(destroyed.executors)
                  THEN Del(frameworks, frameworkId)
                  ELSE [frameworks EXCEPT ![frameworkId] = destroyed]
             /\ Served("executorExited",
                  <<[Message(master, "S2M_EXITED_EXECUTOR") EXCEPT
                       !.framework_id = frameworkId,
                       !.executor_id = executorId],
                    [Message("isolation", "killExecutor") EXCEPT
                       !.framework_id = frameworkId,
                       !.executor_id = executorId]>>)
     ELSE /\ frameworks' = frameworks
          /\ Served("executorExited", <<>>)
  /\ UNCHANGED <<surroundings, master, slaveId, statistics, now, running, launched>>

\* Mutant of KillFrameworksMsgs: no executor is killed.
KillFrameworksMsgsNone(frameworkIds) == <<>>

\* What the TERMINATE branch of Slave::operator() sends: killFramework for
\* every framework of the table.
RECURSIVE KillFrameworksMsgs(_)
KillFrameworksMsgs(frameworkIds) ==
  IF frameworkIds = {} THEN <<>>
  ELSE LET f == CHOOSE f \in frameworkIds : TRUE
       IN KillExecutorMsgs(f, frameworks[f], DOMAIN frameworks[f].executors)
          \o KillFrameworksMsgs(frameworkIds \ {f})

\* Slave::operator(), name() == process::TERMINATE
Terminate ==
  /\ running
  /\ running' = FALSE
  /\ frameworks' = EmptyMap
  /\ Served("TERMINATE", KillFrameworksMsgs(DOMAIN frameworks))
  /\ UNCHANGED <<surroundings, master, slaveId, statistics, now, launched>>

(* ------------------------- the executor reaper ------------------------ *)

\* An executor process ends; it stays a zombie until it is waited for.
ChildExits(pid) ==
  /\ pid \in DOMAIN children
  /\ children[pid].status = "running"
  /\ children' = [children EXCEPT ![pid].status = "zombie"]
  /\ UNCHANGED <<slaveVars, runtimeVars, watcherVars, masterVars, reapRequests, pids, reaperAt, exitedDispatches>>

\* ExecutorReaper::reap, run by serve(1) for the oldest dispatch.
Reap ==
  /\ reaperAt = "serve"
  /\ reapRequests # <<>>
  /\ pids' = Put(pids, Head(reapRequests).child_pid,
                 <<Head(reapRequests).framework_id,
                   Head(reapRequests).executor_id>>)
  /\ reapRequests' = Tail(reapRequests)
  /\ UNCHANGED <<slaveVars, runtimeVars, watcherVars, masterVars, children, reaperAt, exitedDispatches>>

\* serve(1) of ExecutorReaper::operator() returns TIMEOUT: a second went by
\* with nothing to serve.
ReaperTimeout ==
  /\ reaperAt = "serve"
  /\ reapRequests = <<>>
  /\ reaperAt' = "TIMEOUT"
  /\ UNCHANGED <<slaveVars, runtimeVars, watcherVars, masterVars, children, reapRequests, pids, exitedDispatches>>

\* What waitpid(-1, &status, WNOHANG) may return: an exited child, which it
\* releases, or 0 when no child has exited.
Waitpid ==
  IF \E pid \in DOMAIN children : children[pid].status = "zombie"
  THEN {pid \in DOMAIN children : children[pid].status = "zombie"}
  ELSE {0}

\* pids.count(pid) > 0
Monitored(pid) == pid \in DOMAIN pids

\* The TIMEOUT branch of ExecutorReaper::operator().
ReaperWait ==
  /\ reaperAt = "TIMEOUT"
  /\ reaperAt' = "serve"
  /\ \E pid \in Waitpid :
       IF pid > 0
       THEN /\ children' = [children EXCEPT ![pid].status = "reaped"]
            /\ IF Monitored(pid)
               THEN /\ exitedDispatches' =
                         Append(exitedDispatches,
                                [framework_id |-> pids[pid][1],
                                 executor_id |-> pids[pid][2],
                                 child_pid |-> pid])
                    /\ pids' = Del(pids, pid)
               ELSE UNCHANGED <<pids, exitedDispatches>>
       ELSE UNCHANGED <<children, pids, exitedDispatches>>
  /\ UNCHANGED <<slaveVars, runtimeVars, watcherVars, masterVars, reapRequests>>

(* ----------------------------- the master ----------------------------- *)

\* Resources: a quantity per name (cpus, mem), compared componentwise.
Resources(cpus, mem) == [cpus |-> cpus, mem |-> mem]

NoResources == Resources(0, 0)

Plus(a, b) == Resources(a.cpus + b.cpus, a.mem + b.mem)

Minus(a, b) == Resources(a.cpus - b.cpus, a.mem - b.mem)

\* a contains b
Contains(a, b) == b.cpus <= a.cpus /\ b.mem <= a.mem

\* Total resources a slave reports when it registers.
SlaveTotals == {Resources(MaxAmount, MaxAmount)}

\* Task descriptions a framework lists in a reply.
TaskDescs ==
  [task_id : TaskIds, resources : {Resources(1, 1), Resources(MaxAmount, 1)}]

\* Replies to an offer: at most two task descriptions, none to decline; a
\* list of two starts with task t1.
Replies ==
  {<<>>} \cup {<<d>> : d \in TaskDescs}
         \cup {<<d1, d2>> : d1 \in {d \in TaskDescs : d.task_id = "t1"},
                            d2 \in TaskDescs}

\* A message sent by the master.
MasterMessage(to, type) ==
  [to |-> to, type |-> type, framework_id |-> "-", slave_id |-> "-",
   offer_id |-> "-", task_id |-> "-", state |-> "-",
   resources |-> NoResources]

\* The next id the master mints: <master-epoch>-<monotonic-counter>.
NewId == "0-" \o ToString(minted + 1)

\* free is implicit: what is neither offered nor used.
Free(slave) == Minus(Minus(slave.total, slave.offered), slave.used)

\* The ids of the frameworks, or slaves, whose actor has the address.
WithAddr(collection, addr) ==
  {id \in DOMAIN collection : collection[id].actor_addr = addr}

\* register_framework(info, framework_addr)
RegisterFramework(addr) ==
  /\ minted < MaxMinted
  /\ WithAddr(masterFrameworks, addr) = {}
  /\ minted' = minted + 1
  /\ masterFrameworks' =
       Put(masterFrameworks, NewId, [actor_addr |-> addr, active |-> TRUE])
  /\ masterSent' = <<[MasterMessage(addr, "registered") EXCEPT
                        !.framework_id = NewId]>>
  /\ UNCHANGED <<masterSlaves, masterOffers, masterTasks>>
  /\ UNCHANGED <<slaveVars, runtimeVars, watcherVars, children, reapRequests, pids, reaperAt,
                 exitedDispatches>>

\* register_slave(info)
RegisterSlave(addr, total) ==
  /\ minted < MaxMinted
  /\ WithAddr(masterSlaves, addr) = {}
  /\ minted' = minted + 1
  /\ masterSlaves' =
       Put(masterSlaves, NewId,
           [actor_addr |-> addr, total |-> total, offered |-> NoResources,
            used |-> NoResources])
  /\ masterSent' = <<[MasterMessage(addr, "registered") EXCEPT
                        !.slave_id = NewId]>>
  /\ UNCHANGED <<masterFrameworks, masterOffers, masterTasks>>
  /\ UNCHANGED <<slaveVars, runtimeVars, watcherVars, children, reapRequests, pids, reaperAt,
                 exitedDispatches>>

\* Mutant of Offerable: the allocator offers out of the slave's total.
OfferableOfTotal(slave) ==
  {r \in [cpus : 0 .. MaxAmount, mem : 0 .. MaxAmount] :
     r # NoResources /\ Contains(slave.total, r)}

\* The resources a decision of the allocator may offer from a slave: part
\* of its free pool.
Offerable(slave) ==
  {r \in [cpus : 0 .. MaxAmount, mem : 0 .. MaxAmount] :
     r # NoResources /\ Contains(Free(slave), r)}

\* make_offers: the master applies a decision of the allocator, creating the
\* offer and debiting offered_resources.  A decision for an unknown slave is
\* dropped.
MakeOffers(frameworkId, slaveId_, resources) ==
  /\ minted < MaxMinted
  /\ frameworkId \in DOMAIN masterFrameworks
  /\ masterFrameworks[frameworkId].active
  /\ slaveId_ \in DOMAIN masterSlaves
  /\ resources \in Offerable(masterSlaves[slaveId_])
  /\ minted' = minted + 1
  /\ masterOffers' =
       Put(masterOffers, NewId,
           [framework_id |-> frameworkId, slave_id |-> slaveId_,
            resources |-> resources])
  /\ masterSlaves' =
       [masterSlaves EXCEPT ![slaveId_].offered = Plus(@, resources)]
  /\ masterSent' =
       <<[MasterMessage(masterFrameworks[frameworkId].actor_addr, "offer")
            EXCEPT !.framework_id = frameworkId, !.slave_id = slaveId_,
                   !.offer_id = NewId, !.resources = resources]>>
  /\ UNCHANGED <<masterFrameworks, masterTasks>>
  /\ UNCHANGED <<slaveVars, runtimeVars, watcherVars, children, reapRequests, pids, reaperAt,
                 exitedDispatches>>

RECURSIVE ValidTasks(_, _, _, _)
\* Validation of the tasks of a reply, left to right: the task id is unused
\* within the framework and the task fits what remains of the offer.
ValidTasks(frameworkId, descs, remainder, taken) ==
  IF descs = <<>> THEN TRUE
  ELSE /\ <<frameworkId, Head(descs).task_id>> \notin DOMAIN masterTasks
       /\ Head(descs).task_id \notin taken
       /\ Contains(remainder, Head(descs).resources)
       /\ ValidTasks(frameworkId, Tail(descs),
                     Minus(remainder, Head(descs).resources),
                     taken \cup {Head(descs).task_id})

\* The reply passes validation: framework and slave are live and every task
\* is valid.
ValidReply(offer, descs) ==
  /\ offer.framework_id \in DOMAIN masterFrameworks
  /\ offer.slave_id \in DOMAIN masterSlaves
  /\ ValidTasks(offer.framework_id, descs, offer.resources, {})

RECURSIVE SumOf(_)
\* The resources of the tasks of a list.
SumOf(descs) ==
  IF descs = <<>> THEN NoResources
  ELSE Plus(Head(descs).resources, SumOf(Tail(descs)))

\* Mutant of Accepted: the listed tasks are run without validation.
AcceptedUnchecked(offer, descs) == descs

\* The tasks the master runs for a reply: all of them, or none when any
\* fails validation.
Accepted(offer, descs) == IF ValidReply(offer, descs) THEN descs ELSE <<>>

\* reply_to_offer(offer_id, task_descs, filters)
ReplyToOffer(offerId, descs) ==
  /\ offerId \in DOMAIN masterOffers
  /\ masterOffers' = Del(masterOffers, offerId)
  /\ UNCHANGED <<masterFrameworks, minted>>
  /\ UNCHANGED <<slaveVars, runtimeVars, watcherVars, children, reapRequests, pids, reaperAt,
                 exitedDispatches>>
  /\ LET offer == masterOffers[offerId]
         accepted == Accepted(offer, descs)
         slaveAddr == masterSlaves[offer.slave_id].actor_addr
     IN /\ masterSent' =
             [i \in 1 .. Len(accepted) |->
                [MasterMessage(slaveAddr, "run_task") EXCEPT
                   !.framework_id = offer.framework_id,
                   !.slave_id = offer.slave_id,
                   !.task_id = accepted[i].task_id,
                   !.resources = accepted[i].resources]]
             \o (IF ValidReply(offer, descs) THEN <<>>
                 ELSE <<[MasterMessage(
                           masterFrameworks[offer.framework_id].actor_addr,
                           "error") EXCEPT !.offer_id = offerId]>>)
        /\ masterSlaves' =
             [masterSlaves EXCEPT
                ![offer.slave_id].offered = Minus(@, offer.resources),
                ![offer.slave_id].used = Plus(@, SumOf(accepted))]
        /\ masterTasks' =
             [key \in DOMAIN masterTasks \cup
                      {<<offer.framework_id, accepted[i].task_id>> :
                         i \in 1 .. Len(accepted)} |->
                IF key \in DOMAIN masterTasks THEN masterTasks[key]
                ELSE LET i == CHOOSE j \in 1 .. Len(accepted) :
                                 accepted[j].task_id = key[2]
                     IN [slave_id |-> offer.slave_id,
                         resources |-> accepted[i].resources,
                         state |-> "TASK_STAGING"]]

\* Mutant of AlreadyTerminal: no task counts as terminal yet.
AlreadyTerminalNever(task) == FALSE

\* The task is already terminal locally.
AlreadyTerminal(task) == task.state \in TerminalStates

\* status_update(framework_id, status), sent by the slave with id slaveId_.
\* The tally of the dropped updates is left out.
MasterStatusUpdate(slaveId_, frameworkId, taskId, state) ==
  /\ IF frameworkId \in DOMAIN masterFrameworks
        /\ slaveId_ \in DOMAIN masterSlaves
     THEN LET key == <<frameworkId, taskId>>
              known == /\ key \in DOMAIN masterTasks
                       /\ masterTasks[key].slave_id = slaveId_
              latched == known /\ AlreadyTerminal(masterTasks[key])
          IN /\ masterTasks' =
                  IF known /\ ~latched
                  THEN [masterTasks EXCEPT ![key].state = state]
                  ELSE masterTasks
             /\ masterSlaves' =
                  IF known /\ ~latched /\ state \in TerminalStates
                  THEN [masterSlaves EXCEPT ![slaveId_].used =
                          Minus(@, masterTasks[key].resources)]
                  ELSE masterSlaves
             /\ masterSent' =
                  <<[MasterMessage(masterFrameworks[frameworkId].actor_addr,
                                   "status_update") EXCEPT
                       !.framework_id = frameworkId, !.task_id = taskId,
                       !.state = state],
                    [MasterMessage(masterSlaves[slaveId_].actor_addr,
                                   "status_update_ack") EXCEPT
                       !.framework_id = frameworkId, !.slave_id = slaveId_,
                       !.task_id = taskId]>>
     ELSE /\ masterSent' = <<>>
          /\ UNCHANGED <<masterTasks, masterSlaves>>
  /\ UNCHANGED <<masterFrameworks, masterOffers, minted>>
  /\ UNCHANGED <<slaveVars, runtimeVars, watcherVars, children, reapRequests, pids, reaperAt,
                 exitedDispatches>>

RECURSIVE OfferedIn(_, _)
\* The resources that the offers of a set hold of a slave.
OfferedIn(offerIds, slaveId_) ==
  IF offerIds = {} THEN NoResources
  ELSE LET o == CHOOSE x \in offerIds : TRUE
       IN Plus(IF masterOffers[o].slave_id = slaveId_
               THEN masterOffers[o].resources ELSE NoResources,
               OfferedIn(offerIds \ {o}, slaveId_))

\* The slaves after the resources of the given offers went back to free.
Rescinded(offerIds) ==
  [id \in DOMAIN masterSlaves |->
     [masterSlaves[id] EXCEPT !.offered = Minus(@, OfferedIn(offerIds, id))]]

\* Mutant of LostWith: no task is taken for lost with its slave.
LostWithNone(slaveId_) == {}

\* The tasks running on a slave: those it holds that are not terminal.
LostWith(slaveId_) ==
  {key \in DOMAIN masterTasks :
     /\ masterTasks[key].slave_id = slaveId_
     /\ ~AlreadyTerminal(masterTasks[key])}

RECURSIVE LostUpdates(_)
\* One TASK_LOST status update per task, to the framework of the task.
LostUpdates(keys) ==
  IF keys = {} THEN <<>>
  ELSE LET key == CHOOSE x \in keys : TRUE
       IN <<[MasterMessage(masterFrameworks[key[1]].actor_addr,
                           "status_update") EXCEPT
               !.framework_id = key[1], !.task_id = key[2],
               !.state = "TASK_LOST"]>>
          \o LostUpdates(keys \ {key})

\* exited(addr) for the address of an active framework: deactivate it and
\* rescind its offers.  The failover timer is left out.
FrameworkExited(addr) ==
  LET exited == {id \in WithAddr(masterFrameworks, addr) :
                   masterFrameworks[id].active}
      rescinded == {o \in DOMAIN masterOffers :
                      masterOffers[o].framework_id \in exited}
  IN /\ exited # {}
     /\ masterFrameworks' =
          [id \in DOMAIN masterFrameworks |->
             IF id \in exited
             THEN [masterFrameworks[id] EXCEPT !.active = FALSE]
             ELSE masterFrameworks[id]]
     /\ masterSlaves' = Rescinded(rescinded)
     /\ masterOffers' =
          [o \in DOMAIN masterOffers \ rescinded |-> masterOffers[o]]
     /\ masterSent' = <<>>
     /\ UNCHANGED <<masterTasks, minted>>

\* exited(addr) for the address of a slave: its tasks are lost, its offers
\* are lost, the slave is removed.
SlaveExited(addr) ==
  /\ WithAddr(masterSlaves, addr) # {}
  /\ LET exited == CHOOSE id \in WithAddr(masterSlaves, addr) : TRUE
         lost == LostWith(exited)
     IN /\ masterTasks' =
             [key \in DOMAIN masterTasks |->
                IF key \in lost
                THEN [masterTasks[key] EXCEPT !.state = "TASK_LOST"]
                ELSE masterTasks[key]]
        /\ masterSent' = LostUpdates(lost)
        /\ masterSlaves' = Del(masterSlaves, exited)
        /\ masterOffers' =
             [o \in {x \in DOMAIN masterOffers :
                       masterOffers[x].slave_id # exited} |-> masterOffers[o]]
  /\ UNCHANGED <<masterFrameworks, minted>>

\* exited(addr)
MasterExited(addr) ==
  /\ FrameworkExited(addr) \/ SlaveExited(addr)
  /\ UNCHANGED <<slaveVars, runtimeVars, watcherVars, children, reapRequests, pids, reaperAt,
                 exitedDispatches>>

(* -------------------------- the actor runtime ------------------------- *)

\* What the slave, the reaper and the master hold: no step of the runtime
\* writes it.
programVars == <<slaveVars, masterVars, children, reapRequests, pids,
                 reaperAt, exitedDispatches>>

\* ProcessBase::enqueue: an injected message goes to the front of the queue,
\* any other to the back.
EnqueueAtFront(queue, message, inject) == <<message>> \o queue
Enqueue(queue, message, inject) ==
  IF inject THEN <<message>> \o queue ELSE queue \o <<message>>

\* A delivery puts the receiver on the ready queue when it is blocked waiting
\* for a message, and only then.
WakeAlways(state) == state # "FINISHED"
NeedsWake(state) == state = "SERVING"

\* Delivery of one message: a finished process has no queue left and the
\* message is dropped.
Deliver(to, name, from, inject) ==
  /\ sent < MaxSent
  /\ sent' = sent + 1
  /\ IF procState[to] = "FINISHED"
       THEN UNCHANGED <<procState, runq, messages>>
       ELSE /\ messages' =
                 [messages EXCEPT
                    ![to] = Enqueue(@, Envelope(from, name, sent + 1, inject),
                                    inject)]
            /\ IF NeedsWake(procState[to])
                 THEN /\ procState' = [procState EXCEPT ![to] = "READY"]
                      /\ runq' = Append(runq, to)
                 ELSE UNCHANGED <<procState, runq>>
  /\ UNCHANGED <<threads, current, programVars, watcherVars>>

\* ProcessBase::send: a process, inside a handler, sends a message.
Send(from, to, name) ==
  /\ procState[from] = "RUNNING"
  /\ Deliver(to, name, from, FALSE)

\* process::post: a message without a return address, from any thread.
Post(to, name) ==
  /\ name \in MessageNames \cup {"TERMINATE"}
  /\ Deliver(to, name, NoPid, FALSE)

\* process::terminate: a TERMINATE, injected if asked.
TerminateProcess(to, inject) ==
  /\ inject \in BOOLEAN
  /\ Deliver(to, "TERMINATE", NoPid, inject)

\* The exit notification of a finished process to a process linked to it.
Exited(from, to, inject) ==
  /\ from # to
  /\ procState[from] = "FINISHED"
  /\ Deliver(to, "EXITED", from, inject)

\* serve(secs) of a blocked process times out: the process is runnable.
TimerFires(p) ==
  /\ procState[p] = "SERVING"
  /\ procState' = [procState EXCEPT ![p] = "READY"]
  /\ runq' = Append(runq, p)
  /\ UNCHANGED <<threads, messages, current, sent, programVars, watcherVars>>

\* A worker thread draws the process at the head of the ready queue and
\* resumes it: serve() dequeues the next message, or returns TIMEOUT.
Schedule(w) ==
  /\ threads[w] = Idle
  /\ runq # <<>>
  /\ LET p == Head(runq)
     IN  /\ runq' = Tail(runq)
         /\ threads' = [threads EXCEPT ![w] = p]
         /\ procState' = [procState EXCEPT ![p] = "RUNNING"]
         /\ IF messages[p] = <<>>
              THEN /\ current' =
                        [current EXCEPT
                           ![p] = Envelope(NoPid, "TIMEOUT", 0, FALSE)]
                   /\ UNCHANGED messages
              ELSE /\ current' = [current EXCEPT ![p] = Head(messages[p])]
                   /\ messages' = [messages EXCEPT ![p] = Tail(@)]
  /\ UNCHANGED <<sent, programVars, watcherVars>>

\* The handler returns: the process finishes on TERMINATE
\* (Process::operator()), goes back to the ready queue when a message waits,
\* and blocks in serve() otherwise.
Yield(w) ==
  /\ threads[w] # Idle
  /\ LET p == threads[w]
     IN  /\ threads' = [threads EXCEPT ![w] = Idle]
         /\ IF current[p].name = "TERMINATE"
              THEN /\ procState' = [procState EXCEPT ![p] = "FINISHED"]
                   /\ messages' = [messages EXCEPT ![p] = <<>>]
                   /\ UNCHANGED runq
              ELSE IF messages[p] # <<>>
                THEN /\ procState' = [procState EXCEPT ![p] = "READY"]
                     /\ runq' = Append(runq, p)
                     /\ UNCHANGED messages
                ELSE /\ procState' = [procState EXCEPT ![p] = "SERVING"]
                     /\ UNCHANGED <<runq, messages>>
  /\ UNCHANGED <<current, sent, programVars, watcherVars>>

(* --------------------- the ZooKeeper test watcher --------------------- *)

\* What the watcher never touches.
outsideWatcher == <<programVars, runtimeVars>>

\* isSessionState and isCreated, and the test of awaitEvent() that takes any
\* event.
Matches(matcher, event) ==
  CASE matcher.kind = "session" ->
         event.type = "ZOO_SESSION_EVENT" /\ event.state = matcher.arg
    [] matcher.kind = "created" ->
         event.type = "ZOO_CHILD_EVENT" /\ event.path = matcher.arg
    [] OTHER -> TRUE

\* Mutant of Push: the event goes to the front of the queue.
PushFront(queue, event) == <<event>> \o queue

\* std::queue::push: at the back.
Push(queue, event) == Append(queue, event)

\* Mutant of Signal: the signal wakes nobody.
SignalLost(at) == at

\* pthread_cond_signal: a thread blocked in pthread_cond_wait is woken.
Signal(at) == IF at = "wait" THEN "woken" ELSE at

\* TestWatcher::process, Lock lock(&mutex): the ZooKeeper thread takes the
\* mutex.
ProcessLock(event) ==
  /\ zkAt = "idle"
  /\ Len(recorded) < MaxEvents
  /\ mutex = Unlocked
  /\ mutex' = "zk"
  /\ zkAt' = "push"
  /\ zkEvent' = event
  /\ UNCHANGED <<events, testAt, want, recorded, popped, callStart,
                 outsideWatcher>>

\* TestWatcher::process, events.push(Event(type, state, path))
ProcessPush ==
  /\ zkAt = "push"
  /\ events' = Push(events, zkEvent)
  /\ recorded' = Append(recorded, zkEvent)
  /\ zkAt' = "signal"
  /\ UNCHANGED <<mutex, zkEvent, testAt, want, popped, callStart,
                 outsideWatcher>>

\* TestWatcher::process, pthread_cond_signal(&cond)
ProcessSignal ==
  /\ zkAt = "signal"
  /\ testAt' = Signal(testAt)
  /\ zkAt' = "unlock"
  /\ UNCHANGED <<events, mutex, zkEvent, want, recorded, popped, callStart,
                 outsideWatcher>>

\* TestWatcher::process returns: the Lock releases the mutex.
ProcessUnlock ==
  /\ zkAt = "unlock"
  /\ mutex' = Unlocked
  /\ zkAt' = "idle"
  /\ UNCHANGED <<events, zkEvent, testAt, want, recorded, popped, callStart,
                 outsideWatcher>>

\* The test thread calls awaitEvent(matches), or awaitEvent().
AwaitEvent(matcher) ==
  /\ testAt = "idle"
  /\ testAt' = "lock"
  /\ want' = matcher
  /\ callStart' = Len(popped)
  /\ UNCHANGED <<events, mutex, zkAt, zkEvent, recorded, popped,
                 outsideWatcher>>

\* TestWatcher::awaitEvent(), Lock lock(&mutex), and the return of
\* pthread_cond_wait, which takes the mutex again.
AwaitLock ==
  /\ testAt \in {"lock", "woken"}
  /\ mutex = Unlocked
  /\ mutex' = "test"
  /\ testAt' = "check"
  /\ UNCHANGED <<events, zkAt, zkEvent, want, recorded, popped, callStart,
                 outsideWatcher>>

\* TestWatcher::awaitEvent(), while (events.empty()) pthread_cond_wait: the
\* wait releases the mutex.
AwaitWait ==
  /\ testAt = "check"
  /\ events = <<>>
  /\ mutex' = Unlocked
  /\ testAt' = "wait"
  /\ UNCHANGED <<events, zkAt, zkEvent, want, recorded, popped, callStart,
                 outsideWatcher>>

\* pthread_cond_wait may return without a signal.
SpuriousWakeup ==
  /\ testAt = "wait"
  /\ testAt' = "woken"
  /\ UNCHANGED <<events, mutex, zkAt, zkEvent, want, recorded, popped,
                 callStart, outsideWatcher>>

\* TestWatcher::awaitEvent(): events.front(), events.pop(), return; and the
\* test of awaitEvent(matches) on the event returned, which returns it or
\* calls awaitEvent() again.
AwaitPop ==
  /\ testAt = "check"
  /\ events # <<>>
  /\ events' = Tail(events)
  /\ popped' = Append(popped, Head(events))
  /\ mutex' = Unlocked
  /\ testAt' = IF Matches(want, Head(events)) THEN "idle" ELSE "lock"
  /\ UNCHANGED <<zkAt, zkEvent, want, recorded, callStart, outsideWatcher>>

(* --------------------------- specification ---------------------------- *)

Next ==
  \/ \E d \in ClockSteps : Tick(d)
  \/ \E pid \in MasterPids : NewMasterDetected(pid)
  \/ \E f \in RunFrameworkIds, pid \in FrameworkPids, t \in TaskIds,
        e \in ExecutorIds, launchedPid \in UnreapedPids :
       RunTask(f, pid, t, e, launchedPid)
  \/ \E f \in FrameworkIds, t \in TaskIds, delivered \in BOOLEAN :
       KillTask(f, t, delivered)
  \/ \E f \in FrameworkIds : KillFramework(f)
  \/ \E f \in FrameworkIds, id \in SlaveIds, t \in TaskIds :
       StatusUpdateAck(f, id, t)
  \/ \E f \in FrameworkIds, e \in ExecutorIds, from \in ExecutorPids :
       RegisterExecutor(f, e, from)
  \/ \E f \in FrameworkIds, t \in TaskIds, state \in ReportedStates :
       StatusUpdate(f, t, state)
  \/ Timeout
  \/ \E f \in FrameworkIds, e \in ExecutorIds : ExecutorExited(f, e)
  \/ Terminate

Spec == Init /\ [][Next]_vars

SpecFair ==
  /\ Spec
  /\ WF_vars(Timeout)
  /\ WF_vars(\E d \in ClockSteps : Tick(d))

\* The slave with its registration and several executors per framework, at
\* one instant of the clock.
NextLifecycle ==
  \/ \E pid \in MasterPids : NewMasterDetected(pid)
  \/ NoMasterDetected
  \/ \E id \in SlaveIds : RegisterReply(id)
  \/ \E id \in SlaveIds : ReregisterReply(id)
  \/ \E f \in RunFrameworkIds, pid \in FrameworkPids, t \in TaskIds,
        e \in AllExecutorIds, launchedPid \in UnreapedPids :
       RunTask(f, pid, t, e, launchedPid)
  \/ \E f \in FrameworkIds, e \in AllExecutorIds, from \in AllExecutorPids :
       RegisterExecutor(f, e, from)
  \/ \E f \in FrameworkIds, t \in TaskIds, state \in ReportedStates :
       StatusUpdate(f, t, state)
  \/ \E f \in FrameworkIds, e \in AllExecutorIds : ExecutorExited(f, e)

SpecLifecycle == Init /\ [][NextLifecycle]_vars

\* The slave relaying framework messages between schedulers and executors.
NextMessages ==
  \/ \E f \in RunFrameworkIds, pid \in FrameworkPids, t \in TaskIds,
        e \in AllExecutorIds, launchedPid \in UnreapedPids :
       RunTask(f, pid, t, e, launchedPid)
  \/ \E f \in FrameworkIds, e \in AllExecutorIds, from \in ExecutorPids :
       RegisterExecutor(f, e, from)
  \/ \E f \in FrameworkIds, e \in AllExecutorIds : ExecutorExited(f, e)
  \/ \E f \in FrameworkIds : KillFramework(f)
  \/ \E id \in SlaveIds, f \in FrameworkIds, e \in AllExecutorIds :
       SchedulerMessage(id, f, e)
  \/ \E id \in SlaveIds, f \in FrameworkIds, e \in AllExecutorIds :
       ExecutorMessage(id, f, e)
  \/ \E f \in FrameworkIds, pid \in AllFrameworkPids : UpdateFramework(f, pid)

SpecMessages == Init /\ [][NextMessages]_vars

\* The slave between masters: detections and registration replies of masters
\* that hand out different ids, while tasks are dispatched and executors
\* register.
NextRegistration ==
  \/ \E pid \in MasterPids : NewMasterDetected(pid)
  \/ NoMasterDetected
  \/ \E id \in AllSlaveIds : RegisterReply(id)
  \/ \E id \in AllSlaveIds : ReregisterReply(id)
  \/ \E f \in RunFrameworkIds, pid \in FrameworkPids, t \in TaskIds,
        e \in ExecutorIds, launchedPid \in UnreapedPids :
       RunTask(f, pid, t, e, launchedPid)
  \/ \E f \in RunFrameworkIds, e \in ExecutorIds, from \in ExecutorPids :
       RegisterExecutor(f, e, from)

SpecRegistration == Init /\ [][NextRegistration]_vars

\* Values of the options work_dir and home.
Confs ==
  {EmptyMap, [k \in {"work_dir"} |-> "/w"], [k \in {"home"} |-> "/h"],
   [k \in {"work_dir", "home"} |-> IF k = "home" THEN "/h" ELSE "/w"]}

\* A registered slave over any options and any file system left by earlier
\* runs under the directory of executor e1 of framework f1.
InitWorkDir ==
  /\ frameworks = EmptyMap
  /\ master = "m1"
  /\ slaveId = "s1"
  /\ statistics = [launched_tasks |-> 0, finished_tasks |-> 0,
                   killed_tasks |-> 0, failed_tasks |-> 0, lost_tasks |-> 0,
                   valid_status_updates |-> 0, invalid_status_updates |-> 0,
                   valid_framework_messages |-> 0,
                   invalid_framework_messages |-> 0]
  /\ now = 0
  /\ running = TRUE
  /\ out = <<>>
  /\ launched = {}
  /\ terminalSent = {}
  /\ connected = TRUE
  /\ conf \in Confs
  /\ children = EmptyMap
  /\ reapRequests = <<>>
  /\ pids = EmptyMap
  /\ reaperAt = "serve"
  /\ exitedDispatches = <<>>
  /\ InitMaster
  /\ InitRuntime
  /\ InitWatcher
  /\ \E found \in [0 .. MaxSuffix - 1 -> {"ENOENT", "DIR", "ENOTDIR"}] :
       directories =
         [path \in {ExecutorDirectory(conf, "s1", "f1", "e1") \o ToString(i) :
                      i \in {j \in 0 .. MaxSuffix - 1 : found[j] # "ENOENT"}}
            |-> LET i == CHOOSE j \in 0 .. MaxSuffix - 1 :
                           path = ExecutorDirectory(conf, "s1", "f1", "e1")
                                    \o ToString(j)
                IN found[i]]

\* The launcher started by the isolation module creates the directory it was
\* handed.
MakeWorkDirectory ==
  /\ running
  /\ \E i \in 1 .. Len(out) :
       /\ out[i].type = "launchExecutor"
       /\ out[i].directory \notin DOMAIN directories
       /\ directories' = Put(directories, out[i].directory, "DIR")
  /\ UNCHANGED <<frameworks, master, slaveId, statistics, now, running, out,
                 launched, terminalSent, connected, conf, children,
                 reapRequests, pids, reaperAt, exitedDispatches, masterVars,
                 runtimeVars, watcherVars>>

\* The slave launching executors into their work directories.
NextWorkDir ==
  \/ \E f \in RunFrameworkIds, pid \in FrameworkPids, t \in TaskIds,
        e \in AllExecutorIds, launchedPid \in UnreapedPids :
       RunTask(f, pid, t, e, launchedPid)
  \/ \E f \in RunFrameworkIds, e \in AllExecutorIds : ExecutorExited(f, e)
  \/ MakeWorkDirectory

SpecWorkDir == InitWorkDir /\ [][NextWorkDir]_vars

\* The slave launching executors as child processes, the processes, and the
\* reaper.  A process id is given to one process only.
NextReaper ==
  \/ \E f \in RunFrameworkIds, pid \in FrameworkPids, t \in TaskIds,
        e \in AllExecutorIds,
        launchedPid \in UnreapedPids \cup (ChildPids \ DOMAIN children) :
       RunTask(f, pid, t, e, launchedPid)
  \/ \E pid \in ChildPids : ChildExits(pid)
  \/ Reap
  \/ ReaperTimeout
  \/ ReaperWait

SpecReaper == Init /\ [][NextReaper]_vars

\* States of the status updates the slaves forward to the master.
ForwardedStates == {"TASK_RUNNING", "TASK_FINISHED", "TASK_FAILED"}

\* An id the master has not minted.
Unminted == "0-0"

\* The master serving registrations, decisions of the allocator, replies to
\* offers, status updates and exits.
NextMaster ==
  \/ \E addr \in FrameworkPids : RegisterFramework(addr)
  \/ \E addr \in SlaveAddrs, total \in SlaveTotals : RegisterSlave(addr, total)
  \/ \E f \in DOMAIN masterFrameworks, id \in DOMAIN masterSlaves,
        r \in [cpus : 0 .. MaxAmount, mem : 0 .. MaxAmount] :
       MakeOffers(f, id, r)
  \/ \E o \in DOMAIN masterOffers, descs \in Replies : ReplyToOffer(o, descs)
  \/ \E id \in DOMAIN masterSlaves \cup {Unminted},
        f \in DOMAIN masterFrameworks \cup {Unminted}, t \in TaskIds,
        state \in ForwardedStates :
       MasterStatusUpdate(id, f, t, state)
  \/ \E addr \in FrameworkPids \cup SlaveAddrs : MasterExited(addr)

SpecMaster == Init /\ [][NextMaster]_vars

\* The reaper is scheduled again and again.
SpecReaperFair ==
  /\ SpecReaper
  /\ WF_vars(Reap)
  /\ WF_vars(ReaperTimeout)
  /\ WF_vars(ReaperWait)

\* The runtime scheduling the spawned processes.
NextRuntime ==
  \/ \E from \in Processes, to \in Processes, name \in MessageNames :
       Send(from, to, name)
  \/ \E to \in Processes, name \in MessageNames \cup {"TERMINATE"} :
       Post(to, name)
  \/ \E to \in Processes, inject \in BOOLEAN : TerminateProcess(to, inject)
  \/ \E from \in Processes, to \in Processes, inject \in BOOLEAN :
       Exited(from, to, inject)
  \/ \E p \in Processes : TimerFires(p)
  \/ \E w \in Workers : Schedule(w)
  \/ \E w \in Workers : Yield(w)

SpecRuntime == Init /\ [][NextRuntime]_vars

\* The ZooKeeper thread reporting events while the test thread awaits them.
NextWatcher ==
  \/ \E event \in Events : ProcessLock(event)
  \/ ProcessPush
  \/ ProcessSignal
  \/ ProcessUnlock
  \/ \E matcher \in Matchers : AwaitEvent(matcher)
  \/ AwaitLock
  \/ AwaitWait
  \/ SpuriousWakeup
  \/ AwaitPop

SpecWatcher == Init /\ [][NextWatcher]_vars

\* Both threads keep running: a thread that can take its next step takes it.
\* Nothing obliges ZooKeeper to report an event, the test to await one, or
\* pthread_cond_wait to return without a signal.
SpecWatcherFair ==
  /\ SpecWatcher
  /\ WF_vars(ProcessPush)
  /\ WF_vars(ProcessSignal)
  /\ WF_vars(ProcessUnlock)
  /\ WF_vars(AwaitLock)
  /\ WF_vars(AwaitWait)
  /\ WF_vars(AwaitPop)

(* ------------------------------ claims -------------------------------- *)

\* The lookups of a handler found the framework and an executor for the task.
Known(f, t) ==
  /\ GetFramework(f)
  /\ GetExecutorOfTask(frameworks[f], t) # NoExecutor

\* The messages of a handler that were sent to a process (not calls on the
\* isolation module or dispatches to the reaper).
SentTo(msgs, to) == {i \in 1..Len(msgs) : msgs[i].to = to}

Counters == {"finished_tasks", "failed_tasks", "killed_tasks", "lost_tasks"}

\* The sum of the resources of a set of tasks.
RECURSIVE SumResources(_)
SumResources(S) ==
  IF S = {} THEN 0
  ELSE LET t == CHOOSE t \in S : TRUE
       IN TaskResources(t) + SumResources(S \ {t})

\* The pending entry that a handler running now stamps for a status.
Stamped(f, t, st) ==
  [framework_id |-> f, deadline |-> now + STATUS_UPDATE_RETRY_INTERVAL,
   task_id |-> t, state |-> st]

\* The status update of a pending entry is among the messages.
SentIn(msgs, e) ==
  \E i \in 1..Len(msgs) :
    msgs[i] = StatusUpdateMsg(master, e.framework_id, e.task_id, e.state)

\* A step of Slave::statusUpdate that accepts the update: no other handler
\* counts a valid status update.
StatusUpdateStep ==
  statistics'.valid_status_updates = statistics.valid_status_updates + 1

\* What every step of Slave::killTask leaves alone.
KillTaskStep == UNCHANGED <<master, slaveId, statistics, now, launched>>

\* kill_task finds the executor of the task, and it has not registered.
KilledBeforeRegistration(f, t) ==
  /\ Known(f, t)
  /\ frameworks[f].executors[GetExecutorOfTask(frameworks[f], t)].pid = NoPid

C2_AckErasesEveryEntryOfTask ==
  [][\A f \in FrameworkIds, id \in SlaveIds, t \in TaskIds :
       (GetFramework(f) /\ StatusUpdateAck(f, id, t))
         => \A s \in frameworks'[f].statuses : s.task_id # t]_vars

\* C3: a TIMEOUT that re-sends a pending status update resets its deadline to
\* now + retry_interval.
C3_TimeoutResetsDeadline ==
  [][Timeout =>
       \A e \in Pending : e.deadline <= now =>
         /\ e \notin Pending'
         /\ [e EXCEPT !.deadline = now + STATUS_UPDATE_RETRY_INTERVAL]
              \in Pending']_vars

\* C4: the status updates sent to the master for one task, first sends and
\* retries together, never contain a non-terminal state after a terminal one.
C4_NoNonTerminalAfterTerminal ==
  [][\A i \in StatusUpdatesIn(out') :
       out'[i].state \notin TerminalStates =>
         /\ <<out'[i].framework_id, out'[i].task_id>> \notin terminalSent
         /\ \A j \in StatusUpdatesIn(out') :
              (j < i /\ out'[j].framework_id = out'[i].framework_id
                     /\ out'[j].task_id = out'[i].task_id)
                => out'[j].state \notin TerminalStates]_vars

\* C5: status-update retry survives a master change.  new_master_detected
\* makes addr the master; a TIMEOUT sends every expired pending update to that
\* master and to no other process; and once the status_update_ack for a task
\* is handled, its updates are gone from the pending table.
C5_RetrySurvivesMasterChange ==
  [][/\ \A pid \in MasterPids : NewMasterDetected(pid) => master' = pid
     /\ Timeout =>
          /\ master' = master
          /\ \A e \in Pending : e.deadline <= now => SentIn(out', e)
          /\ \A i \in 1..Len(out') : out'[i].to = master
     /\ \A f \in FrameworkIds, id \in SlaveIds, t \in TaskIds :
          (GetFramework(f) /\ StatusUpdateAck(f, id, t))
            => \A e \in Pending' :
                 ~(e.framework_id = f /\ e.task_id = t)]_vars

\* C6: handling status_update for a task that an executor of a known framework
\* holds sends exactly one status update to the master, adds exactly one
\* pending entry statuses[now + retry_interval][task_id] = status and
\* increments valid_status_updates by exactly one.
C6_StatusUpdateForwardsAndRecordsOnce ==
  [][StatusUpdateStep =>
     \A f \in FrameworkIds, t \in TaskIds, st \in ReportedStates :
       (Known(f, t) /\ StatusUpdate(f, t, st)) =>
         /\ StatusUpdatesIn(out') = SentTo(out', master)
         /\ \E i \in 1..Len(out') :
              /\ StatusUpdatesIn(out') = {i}
              /\ out'[i] = StatusUpdateMsg(master, f, t, st)
         /\ frameworks'[f].statuses = frameworks[f].statuses \cup
              {[deadline |-> now + STATUS_UPDATE_RETRY_INTERVAL,
                task_id |-> t, state |-> st]}
         /\ Cardinality(frameworks'[f].statuses) =
              Cardinality(frameworks[f].statuses) + 1
         /\ statistics'.valid_status_updates =
              statistics.valid_status_updates + 1
         /\ statistics'.invalid_status_updates =
              statistics.invalid_status_updates]_vars

\* C6 witness: a first status update of a running task has just been handled.
C6_Witness ==
  \E s \in Pending :
    /\ s.deadline = now + STATUS_UPDATE_RETRY_INTERVAL
    /\ s.state = "TASK_RUNNING"
    /\ out = <<StatusUpdateMsg(master, s.framework_id, s.task_id, s.state)>>
    /\ frameworks[s.framework_id].statuses =
         {[deadline |-> s.deadline, task_id |-> s.task_id, state |-> s.state]}
    /\ statistics.valid_status_updates = 1

\* C7: a status update with a terminal state, for a task in the task set of
\* its executor, removes the task from the set, subtracts its resources from
\* the executor's, reports the new sum through resources_changed and
\* increments exactly one of the four task counters; with a non-terminal state
\* it changes only the recorded state of the task.
C7_TerminalUpdateReleasesTask ==
  [][StatusUpdateStep =>
     \A f \in FrameworkIds, t \in TaskIds, st \in ReportedStates :
       (/\ Known(f, t)
        /\ t \in DOMAIN frameworks[f].executors[
                          GetExecutorOfTask(frameworks[f], t)].tasks
        /\ StatusUpdate(f, t, st)) =>
         LET e == GetExecutorOfTask(frameworks[f], t)
             before == frameworks[f].executors[e]
             after == frameworks'[f].executors[e]
             incremented == {c \in Counters : statistics'[c] = statistics[c] + 1}
             unchanged == {c \in Counters : statistics'[c] = statistics[c]}
             reports == {i \in 1..Len(out') :
                           out'[i].type = "resourcesChanged"}
         IN IF st \in TerminalStates
            THEN /\ DOMAIN after.tasks = DOMAIN before.tasks \ {t}
                 /\ \A u \in DOMAIN after.tasks : after.tasks[u] = before.tasks[u]
                 /\ after.resources = before.resources - TaskResources(t)
                 /\ \E i \in 1..Len(out') :
                      /\ reports = {i}
                      /\ out'[i] = ResourcesChanged(f, e, after.resources)
                 /\ Cardinality(incremented) = 1
                 /\ incremented \cup unchanged = Counters
            ELSE /\ after = [before EXCEPT !.tasks[t] = st]
                 /\ reports = {}
                 /\ unchanged = Counters]_vars

\* C7 witness: TASK_FINISHED has just been handled for t1 while t2 stays in
\* the task set of the same executor.
C7_Witness ==
  \E f \in DOMAIN frameworks : \E e \in DOMAIN frameworks[f].executors :
    /\ DOMAIN frameworks[f].executors[e].tasks = {"t2"}
    /\ frameworks[f].executors[e].resources = TaskResources("t2")
    /\ out = <<ResourcesChanged(f, e, TaskResources("t2")),
               StatusUpdateMsg(master, f, "t1", "TASK_FINISHED")>>
    /\ statistics.finished_tasks = 1

\* C8: after every handler, the resources of each executor are the sum of the
\* resources of the tasks in its task set; queued tasks do not count.
C8_ExecutorResourcesAreSumOfTasks ==
  \A f \in DOMAIN frameworks : \A e \in DOMAIN frameworks[f].executors :
    frameworks[f].executors[e].resources =
      SumResources(DOMAIN frameworks[f].executors[e].tasks)

\* C8 witness: an executor was given both tasks, t1 has ended with a terminal
\* status sent to the master, and the executor holds t2 and its resources.
C8_Witness ==
  \E f \in DOMAIN frameworks : \E e \in DOMAIN frameworks[f].executors :
    /\ DOMAIN frameworks[f].executors[e].tasks = {"t2"}
    /\ frameworks[f].executors[e].resources = TaskResources("t2")
    /\ <<f, "t1">> \in launched
    /\ <<f, "t1">> \in terminalSent

\* C9: kill_task for a task whose executor has registered sends one kill_task
\* message to that executor and nothing else, and changes no table.
C9_KillTaskForwardsToLiveExecutor ==
  [][KillTaskStep =>
     \A f \in FrameworkIds, t \in TaskIds, d \in BOOLEAN :
       (/\ Known(f, t)
        /\ ~KilledBeforeRegistration(f, t)
        /\ KillTask(f, t, d)) =>
         /\ out' = <<[Message(frameworks[f].executors[
                                GetExecutorOfTask(frameworks[f], t)].pid,
                              "S2E_KILL_TASK") EXCEPT
                        !.framework_id = f, !.task_id = t]>>
         /\ frameworks' = frameworks
         /\ statistics' = statistics
         /\ running']_vars

\* C9 witness: a kill_task has just been forwarded to a registered executor
\* that still holds the task.
C9_Witness ==
  \E f \in DOMAIN frameworks : \E e \in DOMAIN frameworks[f].executors :
    \E t \in DOMAIN frameworks[f].executors[e].tasks :
      /\ frameworks[f].executors[e].pid # NoPid
      /\ out = <<[Message(frameworks[f].executors[e].pid, "S2E_KILL_TASK")
                    EXCEPT !.framework_id = f, !.task_id = t]>>

\* C10: kill_task for a task whose executor exists but has not registered
\* sends one TASK_LOST status for the task to the master and records it in the
\* pending table under now + retry_interval; a later TIMEOUT past that
\* deadline sends it again.
C10_KillTaskBeforeRegistrationIsLost ==
  [][/\ KillTaskStep =>
          \A f \in FrameworkIds, t \in TaskIds, d \in BOOLEAN :
          (KilledBeforeRegistration(f, t) /\ KillTask(f, t, d)) =>
            /\ \E i \in 1..Len(out') :
                 /\ SentTo(out', master) = {i}
                 /\ out'[i] = StatusUpdateMsg(master, f, t, "TASK_LOST")
            /\ frameworks'[f].statuses = frameworks[f].statuses \cup
                 {[deadline |-> now + STATUS_UPDATE_RETRY_INTERVAL,
                   task_id |-> t, state |-> "TASK_LOST"]}
     /\ Timeout =>
          \A e \in Pending :
            (e.state = "TASK_LOST" /\ e.deadline <= now) => SentIn(out', e)]_vars

\* C10 witness: TASK_LOST has just been synthesised for a queued task of an
\* executor that has not registered.
C10_Witness ==
  \E e \in Pending :
    /\ e.deadline = now + STATUS_UPDATE_RETRY_INTERVAL
    /\ e.state = "TASK_LOST"
    /\ statistics.lost_tasks = 0
    /\ \E i \in 1..Len(out) :
         out[i] = StatusUpdateMsg(master, e.framework_id, e.task_id, e.state)
    /\ \A x \in DOMAIN frameworks[e.framework_id].executors :
         frameworks[e.framework_id].executors[x].pid = NoPid

\* What every step of Slave::registerExecutor leaves alone.
RegisterExecutorStep ==
  UNCHANGED <<master, slaveId, statistics, now, running, launched>>

\* The registration reply to an executor.
RegisterReplyMsg(to, f, e) ==
  [Message(to, "S2E_REGISTER_REPLY") EXCEPT
     !.framework_id = f, !.executor_id = e]

\* C11: the first register_executor of an expected executor makes the
\* sender's address the executor's address, sends the registration reply and
\* after it one run_task per queued task, to that address, in the order of
\* the queue and each task once; the queued tasks join the task set and the
\* queue is left empty.
C11_FirstRegistrationFlushesQueue ==
  [][RegisterExecutorStep =>
     \A f \in DOMAIN frameworks : \A e \in DOMAIN frameworks[f].executors :
       \A from \in ExecutorPids :
         (/\ frameworks[f].executors[e].pid = NoPid
          /\ RegisterExecutor(f, e, from)) =>
           LET before == frameworks[f].executors[e]
               after == frameworks'[f].executors[e]
               n == Len(before.queuedTasks)
               runs == {i \in 1..Len(out') : out'[i].type = "S2E_RUN_TASK"}
           IN /\ after.pid = from
              /\ \E r \in 1..Len(out') :
                   /\ out'[r] = RegisterReplyMsg(from, f, e)
                   /\ runs = (r + 1)..(r + n)
                   /\ Len(out') = r + n
                   /\ \A k \in 1..n :
                        out'[r + k] = RunTaskMsg(from, f, frameworks[f].pid,
                                                 before.queuedTasks[k])
              /\ \A t \in Range(before.queuedTasks) :
                   Cardinality({i \in runs : out'[i].task_id = t}) = 1
              /\ DOMAIN after.tasks =
                   DOMAIN before.tasks \cup Range(before.queuedTasks)
              /\ after.queuedTasks = <<>>]_vars

\* C11 witness: an executor has just registered with two tasks in its queue,
\* and both were forwarded to it after the reply.
C11_Witness ==
  \E f \in DOMAIN frameworks : \E e \in DOMAIN frameworks[f].executors :
    /\ frameworks[f].executors[e].pid # NoPid
    /\ DOMAIN frameworks[f].executors[e].tasks = TaskIds
    /\ frameworks[f].executors[e].queuedTasks = <<>>
    /\ Len(out) = 4
    /\ out[2] = RegisterReplyMsg(frameworks[f].executors[e].pid, f, e)
    /\ out[3].type = "S2E_RUN_TASK"
    /\ out[4].type = "S2E_RUN_TASK"
    /\ out[3].task_id # out[4].task_id

\* register_executor is not a first registration of an expected executor.
Unexpected(f, e) ==
  \/ ~GetFramework(f)
  \/ GetExecutor(frameworks[f], e) = NoExecutor
  \/ frameworks[f].executors[e].pid # NoPid

\* C12: register_executor for an unknown framework, for an executor the
\* framework does not expect or for an executor that already has an address
\* sends kill_executor to the sender and nothing else, and changes no state
\* of the slave.
C12_UnexpectedRegistrationIsRejected ==
  [][RegisterExecutorStep =>
     \A f \in FrameworkIds, e \in AllExecutorIds, from \in AllExecutorPids :
       (Unexpected(f, e) /\ RegisterExecutor(f, e, from)) =>
         /\ out' = <<Message(from, "S2E_KILL_EXECUTOR")>>
         /\ UNCHANGED <<frameworks, master, slaveId, statistics, running>>]_vars

\* C12 witness: x2 has just been told to exit while the only executor of the
\* only framework is e1, registered from x1.
C12_Witness ==
  /\ out = <<Message("x2", "S2E_KILL_EXECUTOR")>>
  /\ DOMAIN frameworks = {"f1"}
  /\ DOMAIN frameworks["f1"].executors = {"e1"}
  /\ frameworks["f1"].executors["e1"].pid = "x1"

\* A step of Slave::runTask: no other handler is given a task.
RunTaskStep == launched' # launched

\* The executor entity (f, e) is in the tables.
Exists(fws, f, e) == f \in DOMAIN fws /\ e \in DOMAIN fws[f].executors

\* The requests to launch the executor (f, e) among the messages.
Launches(msgs, f, e) ==
  {i \in 1..Len(msgs) : /\ msgs[i].type = "launchExecutor"
                         /\ msgs[i].framework_id = f
                         /\ msgs[i].executor_id = e}

\* C13: run_task for an executor that is not on the slave creates the
\* framework entry if absent and the executor entry, queues the task and asks
\* the isolation module to launch the executor; run_task for an executor that
\* has not registered yet only queues the task; and in every step the
\* isolation module is asked to launch an executor exactly once when the
\* executor entity is created, and never otherwise.
C13_ExecutorIsLaunchedOnce ==
  [][/\ RunTaskStep =>
          \A f \in RunFrameworkIds, pid \in FrameworkPids, t \in TaskIds,
             e \in AllExecutorIds, launchedPid \in UnreapedPids :
            RunTask(f, pid, t, e, launchedPid) =>
              IF ~Exists(frameworks, f, e)
              THEN /\ Exists(frameworks', f, e)
                   /\ frameworks'[f].executors[e].pid = NoPid
                   /\ frameworks'[f].executors[e].queuedTasks = <<t>>
                   /\ DOMAIN frameworks'[f].executors[e].tasks = {}
                   /\ GetFramework(f) =>
                        \A x \in DOMAIN frameworks[f].executors :
                          frameworks'[f].executors[x] =
                            frameworks[f].executors[x]
              ELSE frameworks[f].executors[e].pid = NoPid =>
                     /\ frameworks' = [frameworks EXCEPT
                          ![f].executors[e].queuedTasks = Append(@, t)]
                     /\ out' = <<>>
     /\ \A f \in FrameworkIds, e \in AllExecutorIds :
          Cardinality(Launches(out', f, e)) =
            IF ~Exists(frameworks, f, e) /\ Exists(frameworks', f, e)
            THEN 1 ELSE 0]_vars

\* C13 witness: the launch of e2 has just been asked for while e1 of the same
\* framework waits for its registration with a task in its queue.
C13_Witness ==
  /\ "f1" \in DOMAIN frameworks
  /\ DOMAIN frameworks["f1"].executors = {"e1", "e2"}
  /\ frameworks["f1"].executors["e1"].pid = NoPid
  /\ Len(frameworks["f1"].executors["e1"].queuedTasks) = 1
  /\ Launches(out, "f1", "e2") = {1}
  /\ Launches(out, "f1", "e1") = {}

\* C14: every run_task, whether it queues the task or forwards it to a running
\* executor, calls resources_changed on the isolation module with the
\* executor's current resource sum.
C14_RunTaskReportsResources ==
  [][RunTaskStep =>
     \A f \in RunFrameworkIds, pid \in FrameworkPids, t \in TaskIds,
        e \in ExecutorIds, launchedPid \in UnreapedPids :
       RunTask(f, pid, t, e, launchedPid) =>
         \E i \in 1..Len(out') :
           /\ {j \in 1..Len(out') : out'[j].type = "resourcesChanged"} = {i}
           /\ out'[i] = ResourcesChanged(f, e,
                           frameworks'[f].executors[e].resources)]_vars

\* C15: new_master_detected(addr) records addr as the master and sends it
\* exactly one message, and no message to anyone else: register_slave while
\* the slave id is unset, otherwise reregister_slave with the slave id.
C15_NewMasterGetsOneRegistration ==
  [][\A pid \in MasterPids :
       NewMasterDetected(pid) =>
         /\ master' = pid
         /\ slaveId' = slaveId
         /\ Len(out') = 1
         /\ out'[1].to = pid
         /\ IF slaveId = NoSlaveId
            THEN out'[1].type = "S2M_REGISTER_SLAVE"
            ELSE /\ out'[1].type = "S2M_REREGISTER_SLAVE"
                 /\ out'[1].slave_id = slaveId]_vars

\* C15 witness: a registered slave has just sent reregister_slave with its id
\* to a second master.
C15_Witness ==
  /\ slaveId = "s1"
  /\ master = "m2"
  /\ Len(out) = 1
  /\ out[1].to = "m2"
  /\ out[1].type = "S2M_REREGISTER_SLAVE"
  /\ out[1].slave_id = "s1"

\* The tasks the slave holds that have not reached a terminal state: the
\* tasks queued for an executor and the tasks of its task set.
HeldTasks ==
  UNION {UNION {Range(frameworks[f].executors[e].queuedTasks) \cup
                  {t \in DOMAIN frameworks[f].executors[e].tasks :
                     frameworks[f].executors[e].tasks[t] \notin TerminalStates} :
                e \in DOMAIN frameworks[f].executors} :
         f \in DOMAIN frameworks}

\* C16: the reregister_slave message sent on new_master_detected lists every
\* task the slave holds that has not reached a terminal state, and no other
\* task.
C16_ReregisterListsHeldTasks ==
  [][\A pid \in MasterPids :
       (slaveId # NoSlaveId /\ NewMasterDetected(pid)) =>
         \A i \in 1..Len(out') :
           out'[i].type = "S2M_REREGISTER_SLAVE" => out'[i].tasks = HeldTasks]_vars

\* C17: between no_master_detected and the next new_master_detected the
\* slave sends no status update to a master.
C17_DisconnectedSlaveSendsNoUpdate ==
  [][(~connected /\ ~connected') =>
       \A i \in StatusUpdatesIn(out') : out'[i].to \notin MasterPids]_vars

\* C18: executor_exited for an executor the slave knows sends the master one
\* TASK_LOST status update for every task of the task set of that executor.
C18_ExitedExecutorLosesItsTasks ==
  [][\A f \in FrameworkIds, e \in ExecutorIds :
       (Exists(frameworks, f, e) /\ ExecutorExited(f, e)) =>
         \A t \in DOMAIN frameworks[f].executors[e].tasks :
           Cardinality({i \in 1..Len(out') :
                          out'[i] = StatusUpdateMsg(master, f, t, "TASK_LOST")})
             = 1]_vars

\* The request to the isolation module to clean up an executor.
KillExecutorMsg(f, e) ==
  [Message("isolation", "killExecutor") EXCEPT
     !.framework_id = f, !.executor_id = e]

\* C19: executor_exited for an executor the slave knows asks the isolation
\* module once to clean up that executor, removes the executor entity and
\* nothing else of the framework, and removes the framework entry exactly
\* when no executor of it is left; for an unknown framework or executor it
\* sends nothing and changes no state of the slave.
C19_ExitedExecutorIsRemoved ==
  [][\A f \in FrameworkIds, e \in AllExecutorIds :
       ExecutorExited(f, e) =>
         IF Exists(frameworks, f, e)
         THEN /\ \E i \in 1..Len(out') :
                   /\ {j \in 1..Len(out') : out'[j].to = "isolation"} = {i}
                   /\ out'[i] = KillExecutorMsg(f, e)
              /\ ~Exists(frameworks', f, e)
              /\ IF DOMAIN frameworks[f].executors = {e}
                 THEN frameworks' = Del(frameworks, f)
                 ELSE frameworks' = [frameworks EXCEPT
                                       ![f].executors = Del(@, e)]
              /\ UNCHANGED <<master, slaveId, statistics, running>>
         ELSE /\ out' = <<>>
              /\ UNCHANGED <<frameworks, master, slaveId, statistics,
                             running>>]_vars

\* C19 witness: e1 has just exited and was removed, and the framework stays
\* with its other executor e2.
C19_Witness ==
  /\ "f1" \in DOMAIN frameworks
  /\ DOMAIN frameworks["f1"].executors = {"e2"}
  /\ Len(out) = 2
  /\ out[1].type = "S2M_EXITED_EXECUTOR"
  /\ out[2] = KillExecutorMsg("f1", "e1")

\* Exactly one of the two framework-message counters goes up by one.
OneMessageCounted ==
  \/ /\ statistics'.valid_framework_messages =
          statistics.valid_framework_messages + 1
     /\ statistics'.invalid_framework_messages =
          statistics.invalid_framework_messages
  \/ /\ statistics'.valid_framework_messages =
          statistics.valid_framework_messages
     /\ statistics'.invalid_framework_messages =
          statistics.invalid_framework_messages + 1

\* The valid counter is the one that went up.
CountedValid ==
  statistics'.valid_framework_messages =
    statistics.valid_framework_messages + 1

\* C20: every scheduler_message and every executor_message increments exactly
\* one of valid_framework_messages and invalid_framework_messages by one and
\* is forwarded exactly when the valid counter is the one incremented: a
\* scheduler_message to its executor exactly when framework and executor are
\* known and the executor has registered, an executor_message to the
\* scheduler of its framework exactly when the framework is known.
C20_FrameworkMessagesAreCounted ==
  [][\A id \in SlaveIds, f \in FrameworkIds, e \in AllExecutorIds :
       /\ SchedulerMessage(id, f, e) =>
            LET live == /\ Exists(frameworks, f, e)
                        /\ frameworks[f].executors[e].pid # NoPid
            IN /\ OneMessageCounted
               /\ CountedValid <=> live
               /\ out' = IF live
                         THEN <<[Message(frameworks[f].executors[e].pid,
                                         "S2E_FRAMEWORK_MESSAGE") EXCEPT
                                   !.slave_id = id, !.framework_id = f,
                                   !.executor_id = e]>>
                         ELSE <<>>
       /\ ExecutorMessage(id, f, e) =>
            /\ OneMessageCounted
            /\ CountedValid <=> GetFramework(f)
            /\ out' = IF GetFramework(f)
                      THEN <<[Message(frameworks[f].pid,
                                      "M2F_FRAMEWORK_MESSAGE") EXCEPT
                                !.slave_id = id, !.framework_id = f,
                                !.executor_id = e]>>
                      ELSE <<>>]_vars

\* C20 witness: after one dropped message, a scheduler_message has just been
\* forwarded to a registered executor.
C20_Witness ==
  /\ statistics.valid_framework_messages = 1
  /\ statistics.invalid_framework_messages = 1
  /\ Len(out) = 1
  /\ out[1].type = "S2E_FRAMEWORK_MESSAGE"
  /\ \E f \in DOMAIN frameworks : \E e \in DOMAIN frameworks[f].executors :
       /\ frameworks[f].executors[e].pid # NoPid
       /\ out[1].to = frameworks[f].executors[e].pid
       /\ out[1].executor_id = e

\* The path <work>/slave-<sid>/fw-<fid>-<eid>/<n>.
WorkDirectoryPath(frameworkId, executorId, n) ==
  WorkDir(conf) \o "/slave-" \o slaveId \o "/fw-" \o frameworkId \o "-"
    \o executorId \o "/" \o ToString(n)

\* The requests to launch an executor among msgs.
LaunchRequests(msgs) ==
  {msgs[i] : i \in {j \in 1 .. Len(msgs) : msgs[j].type = "launchExecutor"}}

\* C21: the work directory handed to the isolation module for an executor is
\* <work>/slave-<sid>/fw-<fid>-<eid>/<n> with n the smallest suffix whose path
\* does not exist: every path with a smaller suffix exists and the path
\* handed over does not.
C21_WorkDirectoryIsSmallestFreeSuffix ==
  [][RunTaskStep =>
       \A m \in LaunchRequests(out') :
         \E n \in 0 .. MaxSuffix + 2 :
           /\ m.directory = WorkDirectoryPath(m.framework_id, m.executor_id, n)
           /\ m.directory \notin DOMAIN directories
           /\ \A k \in 0 .. n - 1 :
                WorkDirectoryPath(m.framework_id, m.executor_id, k)
                  \in DOMAIN directories]_vars

\* An executor was handed suffix 2 after a directory and a plain file.
C21_Witness ==
  /\ \E m \in LaunchRequests(out) :
       m.directory = WorkDirectoryPath("f1", "e1", 2)
  /\ Opendir(WorkDirectoryPath("f1", "e1", 0)) = "DIR"
  /\ Opendir(WorkDirectoryPath("f1", "e1", 1)) = "ENOTDIR"
  /\ "work_dir" \in DOMAIN conf

\* The dispatches of Slave::executorExited made for the executor that process
\* pid was launched as.
ExitsTold(pid) ==
  IF pid \notin DOMAIN children THEN 0
  ELSE Cardinality({i \in 1 .. Len(exitedDispatches) :
         /\ exitedDispatches[i].framework_id = children[pid].framework_id
         /\ exitedDispatches[i].executor_id = children[pid].executor_id})

\* Process pid was launched for the slave and has exited.
HasExited(pid) ==
  pid \in DOMAIN children /\ children[pid].status # "running"

\* C22: every executor process launched with a non-zero pid that exits
\* eventually causes exactly one dispatch of executor_exited from the reaper
\* to the slave, whatever the order of the exit, the reaper's wait and the
\* arrival of the reap request.
C22_ExitedProcessIsToldOnce ==
  \A pid \in ChildPids :
    /\ [](ExitsTold(pid) <= 1)
    /\ HasExited(pid) ~> (ExitsTold(pid) = 1)

\* The number of tasks handed to executors (MSG<S2E_RUN_TASK>) among msgs.
TasksDispatched(msgs) ==
  Cardinality({i \in 1 .. Len(msgs) : msgs[i].type = "S2E_RUN_TASK"})

\* The step accepts a TASK_FINISHED status update.
FinishedAccepted ==
  /\ StatusUpdateStep
  /\ \E i \in StatusUpdatesIn(out') : out'[i].state = "TASK_FINISHED"

\* C23: the task statistics count what happened: launched_tasks grows by one
\* with every task the slave dispatches to an executor, finished_tasks by one
\* with every accepted TASK_FINISHED update, and neither changes otherwise
\* (one task run to FINISHED gives launched = 1, finished = 1).
C23_StatisticsCountTasks ==
  [][/\ statistics'.launched_tasks =
          statistics.launched_tasks + TasksDispatched(out')
     /\ statistics'.finished_tasks =
          statistics.finished_tasks + (IF FinishedAccepted THEN 1 ELSE 0)]_vars

\* No component is negative.
NonNegative(r) == r.cpus >= 0 /\ r.mem >= 0

\* C24: for every slave, after each message the master handled,
\* total = free + offered + used componentwise and no component of the three
\* is negative, over registrations, offers, replies, status updates and exits.
C24_MasterConservesResources ==
  \A id \in DOMAIN masterSlaves :
    LET slave == masterSlaves[id]
    IN /\ slave.total = Plus(Plus(Free(slave), slave.offered), slave.used)
       /\ NonNegative(Free(slave))
       /\ NonNegative(slave.offered)
       /\ NonNegative(slave.used)

\* A slave with part of its resources free, part offered and part used.
C24_Witness ==
  \E id \in DOMAIN masterSlaves :
    /\ Free(masterSlaves[id]) # NoResources
    /\ masterSlaves[id].offered # NoResources
    /\ masterSlaves[id].used # NoResources

\* A step of status_update that the master accepts: it alone sends an
\* acknowledgement.
MasterUpdateStep ==
  /\ Len(masterSent') = 2
  /\ masterSent'[2].type = "status_update_ack"

\* C25: the master returns the resources of a task to the free pool of its
\* slave exactly once, on the first terminal status update it sees for the
\* task; every other status update for the task, duplicates of the slave's
\* retries included, credits nothing.
C25_ResourcesReturnOnce ==
  [][MasterUpdateStep =>
       LET id == masterSent'[2].slave_id
           key == <<masterSent'[2].framework_id, masterSent'[2].task_id>>
           first == /\ key \in DOMAIN masterTasks
                    /\ masterTasks[key].slave_id = id
                    /\ masterTasks[key].state \notin TerminalStates
                    /\ masterSent'[1].state \in TerminalStates
       IN Free(masterSlaves'[id]) =
            IF first
            THEN Plus(Free(masterSlaves[id]), masterTasks[key].resources)
            ELSE Free(masterSlaves[id])]_vars

\* The master has just acknowledged an update for a task that was terminal
\* already, in another state.
C25_Witness ==
  /\ Len(masterSent) = 2
  /\ masterSent[2].type = "status_update_ack"
  /\ LET key == <<masterSent[2].framework_id, masterSent[2].task_id>>
     IN /\ key \in DOMAIN masterTasks
        /\ masterTasks[key].state \in TerminalStates
        /\ masterTasks[key].state # masterSent[1].state
        /\ masterSent[1].state \in TerminalStates

\* A step of reply_to_offer: an offer goes while the frameworks and the
\* slaves stay.
ReplyStep ==
  /\ minted' = minted
  /\ masterFrameworks' = masterFrameworks
  /\ DOMAIN masterSlaves' = DOMAIN masterSlaves
  /\ DOMAIN masterOffers' # DOMAIN masterOffers

\* C26: reply_to_offer consumes the offer atomically: when a listed task
\* fails validation no run_task is sent, no task is created and all the
\* resources of the offer return to the free pool of the slave; valid or
\* not, the offer leaves the outstanding set.
C26_ReplyConsumesOfferAtomically ==
  [][ReplyStep =>
       \A o \in DOMAIN masterOffers :
         (\E descs \in Replies : ReplyToOffer(o, descs)) =>
           /\ o \notin DOMAIN masterOffers'
           /\ \A descs \in Replies :
                (~ValidReply(masterOffers[o], descs)
                   /\ ReplyToOffer(o, descs)) =>
                  /\ \A i \in 1 .. Len(masterSent') :
                       masterSent'[i].type # "run_task"
                  /\ masterTasks' = masterTasks
                  /\ Free(masterSlaves'[masterOffers[o].slave_id]) =
                       Plus(Free(masterSlaves[masterOffers[o].slave_id]),
                            masterOffers[o].resources)]_vars

\* A reply was rejected: the framework was sent an error and the slave has
\* all its resources free.
C26_Witness ==
  /\ \E i \in 1 .. Len(masterSent) : masterSent[i].type = "error"
  /\ masterTasks = EmptyMap
  /\ \E id \in DOMAIN masterSlaves :
       Free(masterSlaves[id]) = masterSlaves[id].total

\* A step of exited(addr) for a slave: the slave goes.
SlaveExitedStep ==
  /\ minted' = minted
  /\ DOMAIN masterSlaves' # DOMAIN masterSlaves

\* C27: when the master sees exited(S), every task running on S is marked
\* TASK_LOST and its framework is sent exactly one TASK_LOST update for it,
\* the slave entry is deleted and nothing counts the resources of S any more.
C27_ExitedSlaveLosesItsTasks ==
  [][SlaveExitedStep =>
       \A id \in DOMAIN masterSlaves \ DOMAIN masterSlaves' :
         /\ \A key \in DOMAIN masterTasks :
              (/\ masterTasks[key].slave_id = id
               /\ masterTasks[key].state \notin TerminalStates) =>
                /\ masterTasks'[key].state = "TASK_LOST"
                /\ Cardinality(
                     {i \in 1 .. Len(masterSent') :
                        /\ masterSent'[i].type = "status_update"
                        /\ masterSent'[i].state = "TASK_LOST"
                        /\ masterSent'[i].framework_id = key[1]
                        /\ masterSent'[i].task_id = key[2]
                        /\ masterSent'[i].to =
                             masterFrameworks[key[1]].actor_addr}) = 1
         /\ \A o \in DOMAIN masterOffers' : masterOffers'[o].slave_id # id]_vars

\* A slave exited with two running tasks: two TASK_LOST updates were sent.
C27_Witness ==
  /\ masterSlaves = EmptyMap
  /\ Len(masterSent) = 2
  /\ \A i \in 1 .. 2 :
       /\ masterSent[i].type = "status_update"
       /\ masterSent[i].state = "TASK_LOST"
       /\ masterTasks[<<masterSent[i].framework_id,
                        masterSent[i].task_id>>].state = "TASK_LOST"

\* Places of process p on the ready queue.
QueuedAt(p) == {i \in 1 .. Len(runq) : runq[i] = p}

\* Worker threads executing process p.
Executing(p) == {w \in Workers : threads[w] = p}

\* C28: an actor is on the ready queue at most once, and no two worker
\* threads ever execute the same actor at the same time (nor does a thread
\* execute an actor that is waiting on the ready queue).
C28_ActorSchedulingExclusion ==
  \A p \in Processes :
    /\ Cardinality(QueuedAt(p)) <= 1
    /\ Cardinality(Executing(p)) <= 1
    /\ Cardinality(QueuedAt(p)) + Cardinality(Executing(p)) <= 1

\* Both worker threads execute a process each, and a message has arrived at
\* one of them while its handler runs.
C28_Witness ==
  /\ \A w \in Workers : threads[w] # Idle
  /\ \E p \in Processes : procState[p] = "RUNNING" /\ messages[p] # <<>>

\* A worker thread resumes process p, which dequeues a message.
DequeueStep(p) ==
  /\ procState[p] = "READY"
  /\ procState'[p] = "RUNNING"
  /\ messages[p] # <<>>

\* The messages of one sender in a queue that were not injected.
SentBy(from, queue) ==
  {queue[i] : i \in {j \in 1 .. Len(queue) :
                       queue[j].from = from /\ ~queue[j].injected}}

Due == {e \in Pending : e.deadline <= now}

\* C30: a TIMEOUT sends the status update of a pending entry if and only if
\* the deadline of the entry is at or before the current time: one message
\* for each such entry, none for an entry with a later deadline, nothing at
\* all when no entry has expired, and the pending table as it was.
C30_TimeoutResendsExactlyTheExpired ==
  [][Timeout =>
       /\ Len(out') = Cardinality(Due)
       /\ \A e \in Due : SentIn(out', e)
       /\ \A i \in 1 .. Len(out') : \E e \in Due :
            out'[i] = StatusUpdateMsg(master, e.framework_id, e.task_id,
                                      e.state)
       /\ Due = {} => out' = <<>>
       /\ frameworks' = frameworks
       /\ Pending' = Pending]_vars

\* Two entries are pending, one due and one with a later deadline and another
\* status, and the only message just sent is the status update of the due
\* one: no handler but timeout sends it without stamping a new entry.
C30_Witness ==
  \E e \in Due : \E later \in Pending \ Due :
    /\ Pending = {e, later}
    /\ <<e.task_id, e.state>> # <<later.task_id, later.state>>
    /\ out = <<StatusUpdateMsg(master, e.framework_id, e.task_id, e.state)>>

\* An executor of framework f holds task t, in its task set or in its queue.
Holds(f, t) ==
  /\ f \in DOMAIN frameworks
  /\ \E e \in DOMAIN frameworks[f].executors :
       \/ t \in DOMAIN frameworks[f].executors[e].tasks
       \/ t \in Range(frameworks[f].executors[e].queuedTasks)

\* A step of Slave::statusUpdate: it counts the update, as valid or invalid.
CountedUpdateStep == UpdatesHandled' = UpdatesHandled + 1

\* C31: a status update for an unknown framework, or for a task that no
\* executor of the framework holds, is dropped: nothing is sent, the pending
\* table, the task sets and the executor resources stay as they were, and
\* invalid_status_updates grows by exactly one and no other counter moves.
C31_UnknownStatusUpdateIsDropped ==
  [][CountedUpdateStep =>
     \A f \in FrameworkIds, t \in TaskIds, st \in ReportedStates :
       (~Holds(f, t) /\ StatusUpdate(f, t, st)) =>
         /\ out' = <<>>
         /\ Pending' = Pending
         /\ frameworks' = frameworks
         /\ statistics' = [statistics EXCEPT !.invalid_status_updates = @ + 1]
    ]_vars

\* A status update for a task that no executor of a known framework holds has
\* just been dropped.
C31_Witness ==
  /\ statistics.invalid_status_updates = 1
  /\ statistics.valid_status_updates = 0
  /\ out = <<>>
  /\ Pending = {}
  /\ \E f \in DOMAIN frameworks, t \in TaskIds :
       /\ ~Holds(f, t)
       /\ \E e \in DOMAIN frameworks[f].executors :
            frameworks[f].executors[e].tasks # EmptyMap

\* C32: kill_task for a framework that is not on the slave sends exactly one
\* TASK_LOST status update for the task to the master and completes: the
\* slave keeps running and its tables are as they were.
C32_KillTaskOfAbsentFrameworkCompletes ==
  [][KillTaskStep =>
       \A f \in FrameworkIds, t \in TaskIds, d \in BOOLEAN :
         (~GetFramework(f) /\ KillTask(f, t, d)) =>
           /\ out' = <<StatusUpdateMsg(master, f, t, "TASK_LOST")>>
           /\ running'
           /\ frameworks' = frameworks]_vars

\* C33: kill_task for a known framework in which no executor holds the task
\* sends one TASK_LOST status update to the master, records it in the pending
\* table and completes: the slave keeps running.
C33_KillTaskOfUnheldTaskIsLost ==
  [][KillTaskStep =>
       \A f \in FrameworkIds, t \in TaskIds, d \in BOOLEAN :
         (GetFramework(f) /\ ~Holds(f, t) /\ KillTask(f, t, d)) =>
           /\ running'
           /\ StatusUpdatesIn(out') # {}
           /\ \A i \in StatusUpdatesIn(out') :
                out'[i] = StatusUpdateMsg(master, f, t, "TASK_LOST")
           /\ Stamped(f, t, "TASK_LOST") \in Pending']_vars

\* Task t waits in the queue of an executor of framework f in the table fws.
QueuedIn(fws, f, t) ==
  /\ f \in DOMAIN fws
  /\ \E e \in DOMAIN fws[f].executors :
       t \in Range(fws[f].executors[e].queuedTasks)

\* The run_task messages for task t of framework f among msgs.
RunTasksIn(msgs, f, t) ==
  {i \in 1 .. Len(msgs) : /\ msgs[i].type = "S2E_RUN_TASK"
                          /\ msgs[i].framework_id = f
                          /\ msgs[i].task_id = t}

LastReported(msgs, f, e) ==
  LET calls == {i \in 1 .. Len(msgs) : /\ msgs[i].type = "resourcesChanged"
                                       /\ msgs[i].framework_id = f
                                       /\ msgs[i].executor_id = e}
  IN IF calls = {} THEN -1
     ELSE msgs[CHOOSE i \in calls : \A j \in calls : j <= i].resources

\* C35: after register_executor is handled for an expected executor, the
\* resources last reported to the isolation module through resources_changed
\* are the resources of the executor with the tasks just flushed.
C35_RegistrationReportsFlushedResources ==
  [][RegisterExecutorStep =>
       \A f \in FrameworkIds, e \in ExecutorIds, from \in ExecutorPids :
         (/\ Exists(frameworks, f, e)
          /\ frameworks[f].executors[e].pid = NoPid
          /\ RegisterExecutor(f, e, from))
           => LastReported(out', f, e) = frameworks'[f].executors[e].resources
    ]_vars

\* C36: the id of the slave, once a registration reply has set it, never
\* changes, whatever the order of detections and replies; and a reregister
\* reply that carries another id stops the slave.
C36_SlaveIdNeverChanges ==
  [][/\ slaveId # NoSlaveId => slaveId' = slaveId
     /\ \A id \in AllSlaveIds :
          (slaveId # id /\ ReregisterReply(id)) => ~running']_vars

\* The framework messages to schedulers among msgs.
FrameworkMessagesIn(msgs) ==
  {i \in 1 .. Len(msgs) : msgs[i].type = "M2F_FRAMEWORK_MESSAGE"}

\* The address of framework f has changed in this step.
AddressChanged(f) ==
  /\ f \in DOMAIN frameworks
  /\ f \in DOMAIN frameworks'
  /\ frameworks'[f].pid # frameworks[f].pid

\* C37: update_framework(f, pid) for a known framework makes pid the address
\* of the framework and changes nothing else, and for an unknown framework it
\* changes nothing; no other handler changes the address of a framework; and
\* every executor message is forwarded to the address the framework has, and
\* every run_task sent to an executor, directly or from the queue, carries it.
C37_UpdateFrameworkRedirects ==
  [][/\ \A f \in FrameworkIds, pid \in AllFrameworkPids :
          UpdateFramework(f, pid) =>
            /\ out' = <<>>
            /\ IF GetFramework(f)
               THEN frameworks' = [frameworks EXCEPT ![f].pid = pid]
               ELSE frameworks' = frameworks
     /\ \A f \in FrameworkIds :
          AddressChanged(f) =>
            UpdateFramework(f, frameworks'[f].pid)
     /\ \A i \in FrameworkMessagesIn(out') :
          /\ GetFramework(out'[i].framework_id)
          /\ out'[i].to = frameworks[out'[i].framework_id].pid
     /\ \A i \in 1 .. Len(out') :
          out'[i].type = "S2E_RUN_TASK" =>
            /\ out'[i].framework_id \in DOMAIN frameworks'
            /\ out'[i].pid = frameworks'[out'[i].framework_id].pid]_vars

\* An executor message has just been forwarded to the address that an
\* update_framework gave the framework.
C37_Witness ==
  \E f \in DOMAIN frameworks :
    /\ frameworks[f].pid \notin FrameworkPids
    /\ \E i \in FrameworkMessagesIn(out) :
         /\ out[i].framework_id = f
         /\ out[i].to = frameworks[f].pid

\* The calls of isolationModule->killExecutor for executor e of framework f
\* among msgs.
KillExecutorCalls(msgs, f, e) ==
  {i \in 1 .. Len(msgs) : /\ msgs[i].type = "killExecutor"
                          /\ msgs[i].framework_id = f
                          /\ msgs[i].executor_id = e}

\* C38: on TERMINATE the slave removes every framework before its loop ends:
\* the isolation module is asked to kill each executor of each framework
\* exactly once and no other, the framework table is left empty, the loop has
\* returned, and from then on no message is handled.
C38_TerminateRemovesEveryFramework ==
  [][/\ Terminate =>
          /\ frameworks' = EmptyMap
          /\ ~running'
          /\ \A f \in DOMAIN frameworks :
               \A e \in DOMAIN frameworks[f].executors :
                 Cardinality(KillExecutorCalls(out', f, e)) = 1
          /\ \A i \in 1 .. Len(out') :
               out'[i].type = "killExecutor" =>
                 Exists(frameworks, out'[i].framework_id,
                        out'[i].executor_id)
     /\ ~running =>
          UNCHANGED <<frameworks, master, slaveId, statistics, now, running,
                      out, launched, terminalSent>>]_vars

\* The loop has returned on TERMINATE after the isolation module was asked to
\* kill the executor of a framework that held a task.
C38_Witness ==
  /\ ~running
  /\ frameworks = EmptyMap
  /\ launched # {}
  /\ \E i \in 1 .. Len(out) : out[i].type = "killExecutor"

\* Framework f is on the slave before this step and not after it.
Removed(f) == f \in DOMAIN frameworks /\ f \notin DOMAIN frameworks'

\* C39: retries stop when a framework leaves the slave.  kill_framework of a
\* known framework, and executor_exited of the last executor of a framework,
\* remove the framework with its pending status updates; a framework that
\* comes back starts with none; and a TIMEOUT sends status updates only for
\* frameworks that are on the slave.
C39_RetriesStopWithTheFramework ==
  [][/\ \A f \in FrameworkIds :
          /\ UNCHANGED <<statistics, now, launched>> =>
               /\ (GetFramework(f) /\ KillFramework(f)) => Removed(f)
               /\ \A e \in ExecutorIds :
                    (/\ Exists(frameworks, f, e)
                     /\ DOMAIN frameworks[f].executors = {e}
                     /\ ExecutorExited(f, e)) => Removed(f)
          /\ Removed(f) => \A s \in Pending' : s.framework_id # f
          /\ (f \notin DOMAIN frameworks /\ f \in DOMAIN frameworks')
               => frameworks'[f].statuses = {}
     /\ Timeout =>
          \A i \in StatusUpdatesIn(out') :
            /\ out'[i].framework_id \in DOMAIN frameworks'
            /\ \E s \in frameworks'[out'[i].framework_id].statuses :
                 s.task_id = out'[i].task_id /\ s.state = out'[i].state]_vars

\* The only framework has left the slave after a status update of it had
\* expired, and the handler that ran last at that time sent nothing.
C39_Witness ==
  /\ running
  /\ frameworks = EmptyMap
  /\ terminalSent # {}
  /\ now >= STATUS_UPDATE_RETRY_INTERVAL
  /\ out = <<>>

\* The test thread returns from awaitEvent in this step.
AwaitReturns == testAt = "check" /\ testAt' = "idle"

\* C40: the watcher is a locked FIFO queue of events.  The events popped so
\* far followed by the events still queued are the events recorded, in the
\* order of their arrival, so each is returned once and in order; the queue
\* changes only under the mutex; awaitEvent(matches) returns the first event
\* recorded since the call began that matches, having consumed every event
\* before it; and an awaitEvent() in progress returns once an event is queued.
C40_WatcherIsLockedFifoQueue ==
  /\ [](/\ popped \o events = recorded
        /\ (zkAt # "idle") = (mutex = "zk")
        /\ (testAt = "check") = (mutex = "test"))
  /\ [][/\ events' # events =>
             \/ mutex = "zk" /\ mutex' = "zk"
             \/ mutex = "test"
        /\ AwaitReturns =>
             /\ Len(popped') > callStart
             /\ popped'[Len(popped')] = recorded[Len(popped')]
             /\ Matches(want, recorded[Len(popped')])
             /\ \A k \in callStart + 1 .. Len(popped') - 1 :
                  ~Matches(want, recorded[k])
             /\ want.kind = "any" => Len(popped') = callStart + 1]_vars
  /\ (testAt # "idle" /\ want.kind = "any" /\ events # <<>>)
       ~> (testAt = "idle")

\* awaitEvent(matches) has just returned the event it waited for after it
\* discarded an earlier event that did not match.
C40_Witness ==
  /\ testAt = "idle"
  /\ want.kind # "any"
  /\ Len(popped) >= callStart + 2
  /\ Matches(want, popped[Len(popped)])
  /\ ~Matches(want, popped[callStart + 1])

====
